---- MODULE Spec2Model ----
(***************************************************************************)
(* Connection-resilience subsystem of block-checker (package database):    *)
(* the shared connection handle `db` with its lock `mu`, the Reconnector   *)
(* state machine with its background retry loop, and the DatabaseLogger.   *)
(*                                                                         *)
(* Request flows (clients) and retry-loop goroutines are processes with a  *)
(* program counter.  A critical section of Reconnector.mu contains no      *)
(* blocking call and no other lock, so it is one step; the critical        *)
(* sections of the handle lock `mu` are split at every statement that      *)
(* another flow can observe through an unlocked read of `db`.              *)
(***************************************************************************)
EXTENDS Integers, Sequences, FiniteSets, Bags, TLC

\* ---------------------------------------------------------------- bounds
NumClients == 2          \* concurrent request flows
MaxLoops == 2            \* retry-loop goroutines that can be live together
MaxHandles == 2          \* handles that can exist (not yet collected) together
MaxFails == 2            \* failed attempts of the retry loop (Spec)
MaxFailsHandle == 1      \* failed attempts of the retry loop (SpecHandle)
MaxFailsBackoff == 12    \* failed attempts of the retry loop (SpecBackoff)
MaxFailsLive == 1        \* failed attempts of the retry loop (SpecLive)
MaxFailsRetry == 2       \* failed attempts of the retry loop (SpecRetry)
MaxFailsStatus == 1      \* failed attempts of the retry loop (SpecStatus)
MaxLogLen == 3           \* entries the log buffer holds (SpecLog)
MaxRepeat == 3           \* repeat count of one entry (SpecLog)
MaxMsgLen == 2           \* fragments in one error message (SpecAnalyzer)
MaxAnalyzed == 2         \* AnalyzeError calls in one run (SpecAnalyzer)
NumAnalysts == 2         \* concurrent callers of the ErrorAnalyzer (SpecSummary)
MaxClock == 2            \* instants of time.Now() (SpecSummary)
TicksPerHour == 2        \* instants in one hour of the histogram
MaxSummaryCalls == 3     \* AnalyzeError calls in one run (SpecSummary)
MaxTopCalls == 4         \* AnalyzeError calls in one run (SpecTop)
MaxRetryTime == 90       \* seconds one ReconnectionLogger is followed for (SpecLogRetry)

\* ------------------------------------------------------ program constants
InitialDelay == 1        \* initialDelay, seconds
MaxDelay == 30           \* maxDelay, seconds
HistoryMax == 10         \* errorHistory keeps the 10 most recent entries

DefaultMaxEntries == 100 \* maxEntries set by GetDatabaseLogger
LogLevelDebug == 0
LogLevelInfo == 1
LogLevelWarn == 2
LogLevelError == 3
LogLevelFatal == 4
NoEntry == [level |-> -1, message |-> "", count |-> 0]
MaxExamples == 10        \* maxExamples set by GetErrorAnalyzer
ProgressInterval == 30   \* progressInterval set by NewReconnectionLogger, seconds
\* no addEntry or Clear yet; no slice returned yet
NoOp == [op |-> "none"]
NoSlice == [op |-> "none", n |-> 0, shared |-> FALSE, value |-> <<>>]

Clients == 1..NumClients
Loops == 1..MaxLoops
Handles == 1..MaxHandles
NilDB == 0               \* the nil *sql.DB
Free == <<"none", 0>>    \* mu not held
CId(c) == <<"client", c>>
LId(l) == <<"loop", l>>

VARIABLES
    db,            \* package variable db: NilDB or a handle
    mu,            \* holder of the package lock mu, or Free
    closes,        \* per handle: -1 not open, 0 open, n > 0 Close called n times
    isConnected, reconnecting, retryCount, lastError, errorHistory,
    cancelled,     \* r.ctx is done (r.cancel was called)
    dsnOk,         \* the configured DSN parses: sql.Open succeeds
    failsLeft,     \* failed attempts the retry loop may still run into
    rmu,           \* holder of Reconnector.mu, or Free
    recorded,      \* addErrorToHistory calls so far: the clock of the history
    cpc, cop, cret,            \* per client: position, top-level call, last result
    cdet,          \* per client: ErrorDetails.Code of the DBStatus last returned
    ccalls,        \* per client: calls into Logger / ErrorAnalyzer of its last step
    lpc, newDB, lerr, currentDelay, fails,  \* per loop goroutine
    lcalls,        \* per loop: calls into Logger / ErrorAnalyzer of its last step
    entries,       \* DatabaseLogger.entries: records [level, message, count]
    maxEntries, currentLevel, suppressDuplicates,
    lastEntry,     \* DatabaseLogger.lastEntry: NoEntry (nil) or the record it points to
    merged,        \* addEntry calls the newest entry stands for
    logPanic,      \* an addEntry call panicked
    lastOp,        \* the last addEntry at or above the threshold, or Clear: what it did
    held,          \* the slice the last GetEntries / GetRecentEntries call returned
    summaries,     \* ErrorAnalyzer.summaries: per key, NoSummary or the summary
    details,       \* the *ErrorDetails the last AnalyzeError call returned
    analyzed,      \* AnalyzeError calls so far: the clock of the analyzer
    clock,         \* the instant time.Now() last returned
    eamu,          \* holder of ErrorAnalyzer.mu, or Free
    apc, acall,    \* per caller of the analyzer: position, locals of its call
    matched,       \* per key: calls that took ea.mu for it since it was purged
    aret,          \* what the last ClearOldErrors / GetTopErrors call returned
    startTime, lastProgressTime,   \* ReconnectionLogger: its two instants
    rlOut,         \* what the last call of the ReconnectionLogger did
    progressLines, \* the instants of the time-based progress lines so far
    dlmu,          \* holder of DatabaseLogger.mu, or Free
    script         \* per flow: the lock operations left of the call it is in

connVars == <<db, mu, closes>>
recVars == <<isConnected, reconnecting, retryCount, lastError, errorHistory, cancelled,
            recorded>>
clientVars == <<cpc, cop, cret, cdet, ccalls>>
loopVars == <<lpc, newDB, lerr, currentDelay, fails, lcalls>>
logVars == <<entries, maxEntries, currentLevel, suppressDuplicates, lastEntry,
             merged, logPanic, lastOp, held>>
\* what no step of a request flow or of the retry loop changes in this model:
\* the configuration and the logger's buffer; Reconnector.mu is taken and
\* released within one step, so every step leaves it free
anCallVars == <<clock, eamu, apc, acall, matched, aret>>
anVars == <<summaries, details, analyzed, anCallVars>>
rlVars == <<startTime, lastProgressTime, rlOut, progressLines>>
lockVars == <<dlmu, script>>
restVars == <<dsnOk, rmu, logVars, anVars, rlVars, lockVars>>
sysVars == <<connVars, rmu, recVars, failsLeft, clientVars, loopVars, rlVars, lockVars>>
vars == <<db, mu, closes, isConnected, reconnecting, retryCount, lastError,
          errorHistory, cancelled, dsnOk, failsLeft, cpc, cop, cret,
          lpc, newDB, lerr, currentDelay, fails, entries, maxEntries,
          currentLevel, suppressDuplicates, lastEntry, merged, logPanic,
          rmu, recorded, cdet, ccalls, lcalls, summaries, details, analyzed,
          clock, eamu, apc, acall, matched, aret, lastOp, held,
          startTime, lastProgressTime, rlOut, progressLines, dlmu, script>>

Min(a, b) == IF a < b THEN a ELSE b

\* ------------------------------------------------------------- handles
\* A handle can be given out again once it is closed and nobody refers to it.
Referenced(h) == db = h \/ \E l \in Loops : newDB[l] = h
Available(h) == closes[h] = -1 \/ (closes[h] > 0 /\ ~Referenced(h))
CanOpen == \E h \in Handles : Available(h)
FreshHandle == CHOOSE h \in Handles : Available(h) /\ \A g \in Handles : Available(g) => h <= g
\* (*sql.DB).Close on handle h; counts above 2 are not distinguished
CloseHandle(h) == [closes EXCEPT ![h] = Min(closes[h] + 1, 2)]
\* outcomes of (*sql.DB).Ping / QueryRow on an existing handle: a closed handle
\* always fails, an open one succeeds or fails with the network
PingOutcomes(h) == IF closes[h] = 0 THEN {TRUE, FALSE} ELSE {FALSE}

\* ------------------------------------------------------------ the lock mu
\* a Lock that does not wait for the holder
MuLockNoWait(p) == TRUE

\* mu.Lock() by p returns once nobody holds mu
MuLock(p) == mu = Free
MuUnlock == Free

\* ------------------------------------------------------- Reconnector.mu
\* r.mu.Lock() / r.mu.RLock() by p returns once nobody holds r.mu; every
\* critical section of r.mu is a few assignments and is one step
RmuLock(p) == rmu = Free

\* -------------------------------------------------------- Reconnector data
\* entry := "[timestamp] errorMsg": the timestamp is the clock of the history
HistoryEntry(msg) == <<recorded + 1, msg>>
\* a history that never drops an entry
AddErrorToHistoryNoEvict(hist, msg) == Append(hist, HistoryEntry(msg))

\* if len(r.errorHistory) >= 10 { r.errorHistory = r.errorHistory[1:] }; append
AddErrorToHistory(hist, msg) ==
    IF Len(hist) >= HistoryMax THEN Append(Tail(hist), HistoryEntry(msg))
    ELSE Append(hist, HistoryEntry(msg))

\* ------------------------------------------------------- ErrorAnalyzer data
\* A string is a sequence of fragments of text; a keyword occurs in a message
\* when its fragments occur there side by side.  Chinese text is written in
\* pinyin ("chaoshi" is the keyword of TIME_001 that the second keyword of
\* SQL_002 ends with), the appended hints in translation.
\* The fragments messages are built from: keywords in two spellings of
\* letter case, the head of a keyword of SQL_002 in capitals, and text that
\* no keyword occurs in.
Fragments ==
    {"dial tcp 127.0.0.1:3306: ", "Connection Refused", "connection refused",
     "Timeout", "timeout", "Access Denied", "access denied",
     "Lock Wait "}

\* strings.ToLower on one fragment
ToLowerFragment(f) ==
    CASE f = "Connection Refused" -> "connection refused"
      [] f = "Timeout" -> "timeout"
      [] f = "Access Denied" -> "access denied"
      [] f = "Lock Wait " -> "lock wait "
      [] OTHER -> f
\* strings.ToLower(s)
ToLower(str) == [i \in 1..Len(str) |-> ToLowerFragment(str[i])]
\* strings.Contains(s, substr)
Contains(str, substr) ==
    \E i \in 0..(Len(str) - Len(substr)) : SubSeq(str, i + 1, i + Len(substr)) = substr

ErrorTypeNetwork == "network"
ErrorTypeAuth == "authentication"
ErrorTypeTimeout == "timeout"
ErrorTypeConfig == "configuration"
ErrorTypeSQL == "sql"
ErrorTypeUnknown == "unknown"

\* initializeErrorPatterns: the table, in its order
patterns ==
    << [keywords |-> << <<"connection refused">>, <<"lianjie bei jujue">> >>,
        type |-> ErrorTypeNetwork, code |-> "NET_001", severity |-> 4],
       [keywords |-> << <<"no route to host">>, <<"wangluo bu keda">> >>,
        type |-> ErrorTypeNetwork, code |-> "NET_002", severity |-> 4],
       [keywords |-> << <<"timeout">>, <<"chaoshi">>, <<"context deadline exceeded">> >>,
        type |-> ErrorTypeTimeout, code |-> "TIME_001", severity |-> 3],
       [keywords |-> << <<"access denied">>, <<"renzheng shibai">>, <<"authentication failed">> >>,
        type |-> ErrorTypeAuth, code |-> "AUTH_001", severity |-> 5],
       [keywords |-> << <<"unknown database">>, <<"database doesn't exist">>,
                        <<"shujuku bu cunzai">> >>,
        type |-> ErrorTypeConfig, code |-> "CFG_001", severity |-> 4],
       [keywords |-> << <<"too many connections">>, <<"lianjieshu guoduo">> >>,
        type |-> ErrorTypeNetwork, code |-> "NET_003", severity |-> 3],
       [keywords |-> << <<"disk full">>, <<"cipan kongjian buzu">>, <<"no space left">> >>,
        type |-> ErrorTypeConfig, code |-> "CFG_003", severity |-> 5],
       [keywords |-> << <<"lock wait ", "timeout">>, <<"suo dengdai ", "chaoshi">> >>,
        type |-> ErrorTypeSQL, code |-> "SQL_002", severity |-> 3] >>

\* the pattern matchErrorPattern returns when no keyword occurs
UnknownPattern ==
    [keywords |-> <<>>, type |-> ErrorTypeUnknown, code |-> "UNK_001", severity |-> 2]

\* key := fmt.Sprintf("%s_%s", details.Type, details.Code)
SummaryKey(type, code) == <<type, code>>
SummaryKeys ==
    {SummaryKey(patterns[i].type, patterns[i].code) : i \in 1..Len(patterns)}
        \cup {SummaryKey(UnknownPattern.type, UnknownPattern.code)}
\* a key the map summaries does not hold
NoSummary ==
    [count |-> 0, firstSeen |-> 0, lastSeen |-> 0, frequency |-> EmptyBag,
     examples |-> <<>>, resolved |-> FALSE]
Analysts == 1..NumAnalysts
AId(a) == <<"analyst", a>>
\* no call of the analyzer in progress, no accessor called yet
NoCall == [key |-> <<"none", "none">>]
NoReturn == [op |-> "none"]
\* no *ErrorDetails returned yet
NoDetails ==
    [type |-> "none", code |-> "none", message |-> <<>>, hint |-> "none",
     retryCount |-> 0, logged |-> -1]

\* the state after construction (GetReconnector, GetErrorAnalyzer, package
\* variables), with the number of failed attempts the run may contain and
\* the instant of time it starts at
InitAt(budget, time) ==
    /\ db = NilDB /\ mu = Free /\ closes = [h \in Handles |-> -1]
    /\ isConnected = FALSE /\ reconnecting = FALSE /\ retryCount = 0
    /\ lastError = "nil" /\ errorHistory = <<>> /\ cancelled = FALSE
    /\ dsnOk \in BOOLEAN
    /\ failsLeft = budget
    /\ cpc = [c \in Clients |-> "idle"] /\ cop = [c \in Clients |-> "none"]
    /\ cret = [c \in Clients |-> "none"]
    /\ cdet = [c \in Clients |-> "none"] /\ ccalls = [c \in Clients |-> {}]
    /\ rmu = Free /\ recorded = 0 /\ lcalls = [l \in Loops |-> {}]
    /\ lpc = [l \in Loops |-> "idle"] /\ newDB = [l \in Loops |-> NilDB]
    /\ lerr = [l \in Loops |-> "nil"] /\ currentDelay = [l \in Loops |-> 0]
    /\ fails = [l \in Loops |-> 0]
    /\ entries = <<>> /\ maxEntries = DefaultMaxEntries
    /\ currentLevel = LogLevelInfo /\ suppressDuplicates = TRUE
    /\ lastEntry = NoEntry /\ merged = 0 /\ logPanic = FALSE
    /\ lastOp = NoOp /\ held = NoSlice
    /\ summaries = [k \in SummaryKeys |-> NoSummary] /\ details = NoDetails
    /\ analyzed = 0
    /\ clock = time /\ eamu = Free
    /\ apc = [a \in Analysts |-> "idle"] /\ acall = [a \in Analysts |-> NoCall]
    /\ matched = [k \in SummaryKeys |-> 0] /\ aret = NoReturn
    /\ startTime = 0 /\ lastProgressTime = 0 /\ rlOut = NoReturn
    /\ progressLines = <<>>
    /\ dlmu = Free /\ script = [c \in Clients |-> <<>>]

\* the state after construction at instant 0
InitWith(budget) == InitAt(budget, 0)

Init == InitWith(MaxFails)

\* ---------------------------------------------------------- client control
\* A call made by an idle client performs the callee's first step; `cop` is
\* the top-level call a nested call returns into, `cret` the last result.
\* `cdet` is the code of the ErrorDetails a returned DBStatus carries, `ccalls`
\* the calls into Logger and ErrorAnalyzer the step makes, each with the lock
\* the flow holds while it makes the call.
NoLock == "none"
LoggerCall(lock) == <<"Logger", lock>>
AnalyzerCall(lock) == <<"ErrorAnalyzer", lock>>
MoveWith(c, label, op, result, det, calls) ==
    /\ cpc' = [cpc EXCEPT ![c] = label]
    /\ cop' = [cop EXCEPT ![c] = op]
    /\ cret' = [cret EXCEPT ![c] = result]
    /\ cdet' = [cdet EXCEPT ![c] = det]
    /\ ccalls' = [ccalls EXCEPT ![c] = calls]
Move(c, label, op, result) == MoveWith(c, label, op, result, "none", {})
Goto(c, label) == Move(c, label, cop[c], "none")
GotoCalling(c, label, calls) == MoveWith(c, label, cop[c], "none", "none", calls)
ReturnStatus(c, status, det, calls) == MoveWith(c, "idle", "none", status, det, calls)
Enter(c, label, op) == Move(c, label, op, "none")
Return(c, result) == Move(c, "idle", "none", result)

\* ------------------------------------------------ Reconnector.StartReconnection
\* where StartReconnection returns to, by the call it was made from
AfterStart(c) ==
    IF cop[c] = "CheckStatus" THEN Goto(c, "cs_isrec")
    ELSE IF cop[c] = "CheckConnection" THEN Return(c, "false")
    ELSE IF cop[c] = "InitDB" THEN Return(c, "nil")
    ELSE Return(c, "none")

\* StartReconnection without the test of the flag
SrLockAtNoCheck(c, at) ==
    /\ cpc[c] = at
    /\ reconnecting' = TRUE
    /\ Goto(c, "sr_go")
    /\ UNCHANGED <<connVars, isConnected, retryCount, lastError, errorHistory, recorded,
                   cancelled, restVars, failsLeft, loopVars>>

\* r.mu.Lock(); if r.reconnecting { unlock; return }; r.reconnecting = true; unlock
SrLockAt(c, at) ==
    /\ cpc[c] = at
    /\ RmuLock(CId(c))
    /\ IF reconnecting
       THEN /\ AfterStart(c)
            /\ UNCHANGED reconnecting
       ELSE /\ reconnecting' = TRUE
            /\ Goto(c, "sr_go")
    /\ UNCHANGED <<connVars, isConnected, retryCount, lastError, errorHistory, recorded,
                   cancelled, restVars, failsLeft, loopVars>>

CallStartReconnection(c) == SrLockAt(c, "idle")
SrLock(c) == SrLockAt(c, "sr_lock")

FreeSlot(l) == lpc[l] = "idle" /\ \A k \in Loops : lpc[k] = "idle" => l <= k
\* go r.reconnectionLoop()
SrGo(c) ==
    /\ cpc[c] = "sr_go"
    /\ \E l \in Loops :
          /\ FreeSlot(l)
          /\ lpc' = [lpc EXCEPT ![l] = "l_start"]
    /\ AfterStart(c)
    /\ UNCHANGED <<connVars, recVars, restVars, failsLeft, newDB, lerr, currentDelay, fails,
                   lcalls>>

\* ------------------------------------------------- Reconnector.StopReconnection
\* a StopReconnection that also resets the retry count
StopLockAtResets(c, at, op) ==
    /\ cpc[c] = at
    /\ reconnecting' = FALSE
    /\ retryCount' = 0
    /\ Enter(c, "stop_cancel", op)
    /\ UNCHANGED <<connVars, isConnected, lastError, errorHistory, recorded,
                   cancelled, restVars, failsLeft, loopVars>>

\* r.mu.Lock(); r.reconnecting = false; r.mu.Unlock()
StopLockAt(c, at, op) ==
    /\ cpc[c] = at
    /\ RmuLock(CId(c))
    /\ reconnecting' = FALSE
    /\ Enter(c, "stop_cancel", op)
    /\ UNCHANGED <<connVars, isConnected, retryCount, lastError, errorHistory, recorded,
                   cancelled, restVars, failsLeft, loopVars>>

CallStopReconnection(c) == StopLockAt(c, "idle", "none")

\* r.cancel(); back in CloseDB the handle is next
StopCancel(c) ==
    /\ cpc[c] = "stop_cancel"
    /\ cancelled' = TRUE
    /\ IF cop[c] = "CloseDB" THEN Goto(c, "close_lock") ELSE Return(c, "none")
    /\ UNCHANGED <<connVars, isConnected, reconnecting, retryCount, lastError,
                   errorHistory, recorded, restVars, failsLeft, loopVars>>

\* -------------------------------------------------- Reconnector.OnConnectionLost
\* r.mu.Lock(); r.isConnected = false; r.mu.Unlock(); logger.Warn(...);
\* then r.StartReconnection()
OclLockAt(c, at) ==
    /\ cpc[c] = at
    /\ RmuLock(CId(c))
    /\ isConnected' = FALSE
    /\ GotoCalling(c, "sr_lock", {LoggerCall(NoLock)})
    /\ UNCHANGED <<connVars, reconnecting, retryCount, lastError, errorHistory, recorded,
                   cancelled, restVars, failsLeft, loopVars>>

CallOnConnectionLost(c) == OclLockAt(c, "idle")
OclLock(c) == OclLockAt(c, "ocl_lock")

\* --------------------------------------------------- Reconnector.CheckConnection
\* if db == nil { return false }
CallCheckConnection(c) ==
    /\ cpc[c] = "idle"
    /\ IF db = NilDB THEN Return(c, "false") ELSE Enter(c, "cc_ping", "CheckConnection")
    /\ UNCHANGED <<connVars, recVars, restVars, failsLeft, loopVars>>

\* if err := db.Ping(); err != nil { r.OnConnectionLost(); return false }
\* db is read again: a nil db here is a nil-pointer dereference
CcPing(c) ==
    /\ cpc[c] = "cc_ping"
    /\ IF db = NilDB THEN Return(c, "panic")
       ELSE \E ok \in PingOutcomes(db) : Goto(c, IF ok THEN "cc_set" ELSE "ocl_lock")
    /\ UNCHANGED <<connVars, recVars, restVars, failsLeft, loopVars>>

\* r.mu.Lock(); r.isConnected = true; r.mu.Unlock(); return true
CcSet(c) ==
    /\ cpc[c] = "cc_set"
    /\ RmuLock(CId(c))
    /\ isConnected' = TRUE
    /\ Return(c, "true")
    /\ UNCHANGED <<connVars, reconnecting, retryCount, lastError, errorHistory, recorded,
                   cancelled, restVars, failsLeft, loopVars>>

\* ------------------------------------------------------------------ CheckStatus
\* a CheckStatus that treats a missing handle as a lost connection
CallCheckStatusReconnect(c) ==
    /\ cpc[c] = "idle"
    /\ IF db = NilDB THEN Enter(c, "ocl_lock", "CheckStatus")
       ELSE Enter(c, "cs_ping", "CheckStatus")
    /\ UNCHANGED <<connVars, recVars, restVars, failsLeft, loopVars>>

\* if db == nil { return Not Connected / configuration, CFG_002 }
CallCheckStatus(c) ==
    /\ cpc[c] = "idle"
    /\ IF db = NilDB THEN ReturnStatus(c, "Not Connected", "CFG_002", {})
       ELSE Enter(c, "cs_ping", "CheckStatus")
    /\ UNCHANGED <<connVars, recVars, restVars, failsLeft, loopVars>>

\* if err := db.Ping(); err != nil { GetRetryCount; analyzeError; OnConnectionLost ... }
\* (the retry count, read under r.mu, only feeds the message text; AnalyzeError
\* logs its analysis)
CsPing(c) ==
    /\ cpc[c] = "cs_ping"
    /\ IF db = NilDB THEN Return(c, "panic")
       ELSE \E ok \in PingOutcomes(db) :
               IF ok THEN Goto(c, "cs_query")
               ELSE /\ RmuLock(CId(c))
                    /\ GotoCalling(c, "ocl_lock", {AnalyzerCall(NoLock), LoggerCall(NoLock)})
    /\ UNCHANGED <<connVars, recVars, restVars, failsLeft, loopVars>>

\* if reconnector.IsReconnecting() { return Reconnecting }; return Not Connected
CsIsRec(c) ==
    /\ cpc[c] = "cs_isrec"
    /\ RmuLock(CId(c))
    /\ ReturnStatus(c, IF reconnecting THEN "Reconnecting" ELSE "Not Connected",
                    "analyzed", {})
    /\ UNCHANGED <<connVars, recVars, restVars, failsLeft, loopVars>>

\* err := db.QueryRow("SELECT NOW()").Scan(...): Failed on error, else OK
CsQuery(c) ==
    /\ cpc[c] = "cs_query"
    /\ IF db = NilDB THEN Return(c, "panic")
       ELSE \E ok \in PingOutcomes(db) :
               IF ok THEN Return(c, "OK")
               ELSE ReturnStatus(c, "Failed", "analyzed",
                                 {AnalyzerCall(NoLock), LoggerCall(NoLock)})
    /\ UNCHANGED <<connVars, recVars, restVars, failsLeft, loopVars>>

\* ------------------------------------- IsConnected, IsReconnecting, GetRetryCount
\* r.mu.RLock(); defer r.mu.RUnlock(); return r.isConnected
IsConnected(c) ==
    /\ cpc[c] = "idle"
    /\ RmuLock(CId(c))
    /\ Return(c, IF isConnected THEN "true" ELSE "false")
    /\ UNCHANGED <<connVars, recVars, restVars, failsLeft, loopVars>>

IsReconnecting(c) ==
    /\ cpc[c] = "idle"
    /\ RmuLock(CId(c))
    /\ Return(c, IF reconnecting THEN "true" ELSE "false")
    /\ UNCHANGED <<connVars, recVars, restVars, failsLeft, loopVars>>

GetRetryCount(c) ==
    /\ cpc[c] = "idle"
    /\ RmuLock(CId(c))
    /\ Return(c, ToString(retryCount))
    /\ UNCHANGED <<connVars, recVars, restVars, failsLeft, loopVars>>

\* ----------------------------------------------------------------------- InitDB
\* mu.Lock()
CallInitDB(c) ==
    /\ cpc[c] = "idle"
    /\ MuLock(CId(c))
    /\ mu' = CId(c)
    /\ Enter(c, "init_open", "InitDB")
    /\ UNCHANGED <<db, closes, recVars, restVars, failsLeft, loopVars>>

\* db, err = sql.Open(...); mu.Unlock(); on error db is nil and InitDB returns it.
\* The previous handle, if any, is overwritten without being closed.
InitOpen(c) ==
    /\ cpc[c] = "init_open"
    /\ mu' = MuUnlock
    /\ IF dsnOk
       THEN /\ CanOpen
            /\ db' = FreshHandle
            /\ closes' = [closes EXCEPT ![FreshHandle] = 0]
            /\ Goto(c, "init_ping")
       ELSE /\ db' = NilDB
            /\ ReturnStatus(c, "error", "none", {LoggerCall(NoLock)})
            /\ UNCHANGED closes
    /\ UNCHANGED <<recVars, restVars, failsLeft, loopVars>>

\* db.SetMaxOpenConns...; if err := db.Ping(); err != nil {...StartReconnection; return nil}
\* db is read without the lock
InitPing(c) ==
    /\ cpc[c] = "init_ping"
    /\ IF db = NilDB THEN Return(c, "panic")
       ELSE \E ok \in PingOutcomes(db) :
               IF ok THEN Goto(c, "init_set")
               ELSE GotoCalling(c, "sr_lock", {AnalyzerCall(NoLock), LoggerCall(NoLock)})
    /\ UNCHANGED <<connVars, recVars, restVars, failsLeft, loopVars>>

\* logger.InfoWithConnection(...); reconnector.mu.Lock();
\* reconnector.isConnected = true; unlock; return nil
InitSet(c) ==
    /\ cpc[c] = "init_set"
    /\ RmuLock(CId(c))
    /\ isConnected' = TRUE
    /\ ReturnStatus(c, "nil", "none", {LoggerCall(NoLock)})
    /\ UNCHANGED <<connVars, reconnecting, retryCount, lastError, errorHistory, recorded,
                   cancelled, restVars, failsLeft, loopVars>>

\* ---------------------------------------------------------------------- CloseDB
\* reconnector.StopReconnection() comes first
CallCloseDB(c) == StopLockAt(c, "idle", "CloseDB")

\* mu.Lock()
CloseLock(c) ==
    /\ cpc[c] = "close_lock"
    /\ MuLock(CId(c))
    /\ mu' = CId(c)
    /\ Goto(c, "close_close")
    /\ UNCHANGED <<db, closes, recVars, restVars, failsLeft, loopVars>>

\* if db != nil { if err := db.Close(); err != nil { logger.Error... } else
\* { logger.Info... } }: either way the logger is called, mu held
CloseClose(c) ==
    /\ cpc[c] = "close_close"
    /\ closes' = IF db # NilDB THEN CloseHandle(db) ELSE closes
    /\ GotoCalling(c, "close_nil", IF db # NilDB THEN {LoggerCall("mu")} ELSE {})
    /\ UNCHANGED <<db, mu, recVars, restVars, failsLeft, loopVars>>

\* a CloseDB that unlocks and leaves db as it is
CloseNilKeepsHandle(c) ==
    /\ cpc[c] = "close_nil"
    /\ db' = db
    /\ mu' = MuUnlock
    /\ Return(c, "none")
    /\ UNCHANGED <<closes, recVars, restVars, failsLeft, loopVars>>

\* db = nil (inside the if); mu.Unlock()
CloseNil(c) ==
    /\ cpc[c] = "close_nil"
    /\ db' = NilDB
    /\ mu' = MuUnlock
    /\ Return(c, "none")
    /\ UNCHANGED <<closes, recVars, restVars, failsLeft, loopVars>>

\* ------------------------------------------------- Reconnector.reconnectionLoop
LReturnLocals(l) ==
    /\ newDB' = [newDB EXCEPT ![l] = NilDB]
    /\ lerr' = [lerr EXCEPT ![l] = "nil"]
    /\ currentDelay' = [currentDelay EXCEPT ![l] = 0]
    /\ fails' = [fails EXCEPT ![l] = 0]
LGotoCalling(l, label, calls) ==
    /\ lpc' = [lpc EXCEPT ![l] = label]
    /\ lcalls' = [lcalls EXCEPT ![l] = calls]
LGoto(l, label) == LGotoCalling(l, label, {})
\* the goroutine returns; its locals are gone
LReturnCalling(l, calls) ==
    /\ LGotoCalling(l, "idle", calls)
    /\ LReturnLocals(l)
LReturn(l) == LReturnCalling(l, {})

\* doubling without the cap
NextDelayNoCap(d) == 2 * d

\* currentDelay *= 2; if currentDelay > maxDelay { currentDelay = maxDelay }
NextDelay(d) == IF 2 * d > MaxDelay THEN MaxDelay ELSE 2 * d

\* currentDelay := initialDelay; reconnLogger.StartReconnection()
LStart(l) ==
    /\ lpc[l] = "l_start"
    /\ currentDelay' = [currentDelay EXCEPT ![l] = InitialDelay]
    /\ LGotoCalling(l, "l_select", {LoggerCall(NoLock)})
    /\ UNCHANGED <<connVars, recVars, restVars, failsLeft, clientVars, newDB, lerr, fails>>

\* for { select { case <-r.ctx.Done(): return; default: tryConnect ... } }
CtxDone == cancelled
LSelect(l) ==
    /\ lpc[l] = "l_select"
    /\ IF CtxDone THEN LReturn(l)
       ELSE LGoto(l, "tc_open") /\ UNCHANGED <<newDB, lerr, currentDelay, fails>>
    /\ UNCHANGED <<connVars, recVars, restVars, failsLeft, clientVars>>

\* a tryConnect that takes r.mu on entry and keeps it while it connects
TcOpenHoldingRmu(l) ==
    /\ lpc[l] = "tc_open"
    /\ RmuLock(LId(l))
    /\ rmu' = LId(l)
    /\ dsnOk /\ CanOpen
    /\ newDB' = [newDB EXCEPT ![l] = FreshHandle]
    /\ closes' = [closes EXCEPT ![FreshHandle] = 0]
    /\ LGoto(l, "tc_ping")
    /\ UNCHANGED <<db, mu, recVars, dsnOk, logVars, anVars, rlVars, lockVars, failsLeft,
                   lerr, clientVars, currentDelay, fails>>

\* tryConnect: newDB, err := sql.Open("mysql", dsn)
TcOpen(l) ==
    /\ lpc[l] = "tc_open"
    /\ IF dsnOk
       THEN /\ CanOpen
            /\ newDB' = [newDB EXCEPT ![l] = FreshHandle]
            /\ closes' = [closes EXCEPT ![FreshHandle] = 0]
            /\ LGoto(l, "tc_ping")
            /\ UNCHANGED <<failsLeft, lerr>>
       ELSE /\ failsLeft > 0
            /\ failsLeft' = failsLeft - 1
            /\ lerr' = [lerr EXCEPT ![l] = "open"]
            /\ LGoto(l, "tc_rec")
            /\ UNCHANGED <<closes, newDB>>
    /\ UNCHANGED <<db, mu, recVars, restVars, clientVars, currentDelay, fails>>

\* tryConnect: pool parameters, then newDB.Ping()
TcPing(l) ==
    /\ lpc[l] = "tc_ping"
    /\ \/ /\ failsLeft > 0
          /\ failsLeft' = failsLeft - 1
          /\ lerr' = [lerr EXCEPT ![l] = "ping"]
          /\ LGoto(l, "tc_rec")
       \/ /\ LGoto(l, "tc_lock")
          /\ UNCHANGED <<failsLeft, lerr>>
    /\ UNCHANGED <<connVars, recVars, restVars, clientVars, newDB, currentDelay, fails>>

\* tryConnect, failure: r.mu.Lock(); r.lastError = err; r.addErrorToHistory(...); unlock
TcRecord(l) ==
    /\ lpc[l] = "tc_rec"
    /\ RmuLock(LId(l))
    /\ lastError' = lerr[l]
    /\ errorHistory' = AddErrorToHistory(errorHistory, lerr[l])
    /\ recorded' = recorded + 1
    /\ LGoto(l, IF lerr[l] = "ping" THEN "tc_closenew" ELSE "l_fail")
    /\ UNCHANGED <<connVars, isConnected, reconnecting, retryCount, cancelled, restVars,
                   failsLeft, clientVars, newDB, lerr, currentDelay, fails>>

\* tryConnect returning false without closing the handle that failed its ping
TcCloseNewLeak(l) ==
    /\ lpc[l] = "tc_closenew"
    /\ newDB' = [newDB EXCEPT ![l] = NilDB]
    /\ LGoto(l, "l_fail")
    /\ UNCHANGED <<connVars, recVars, restVars, failsLeft, clientVars, lerr, currentDelay, fails>>

\* tryConnect, ping failure: if closeErr := newDB.Close(); closeErr != nil
\* { logger.Error(...) }; return false
TcCloseNew(l) ==
    /\ lpc[l] = "tc_closenew"
    /\ closes' = CloseHandle(newDB[l])
    /\ newDB' = [newDB EXCEPT ![l] = NilDB]
    /\ \E closeErr \in BOOLEAN :
          LGotoCalling(l, "l_fail", IF closeErr THEN {LoggerCall(NoLock)} ELSE {})
    /\ UNCHANGED <<db, mu, recVars, restVars, failsLeft, clientVars, lerr, currentDelay, fails>>

\* tryConnect, success: mu.Lock()
TcLock(l) ==
    /\ lpc[l] = "tc_lock"
    /\ MuLock(LId(l))
    /\ mu' = LId(l)
    /\ LGoto(l, "tc_closeold")
    /\ UNCHANGED <<db, closes, recVars, restVars, failsLeft, clientVars, newDB, lerr,
                   currentDelay, fails>>

\* if db != nil { if closeErr := db.Close(); closeErr != nil { logger.Error(...) } }
TcCloseOld(l) ==
    /\ lpc[l] = "tc_closeold"
    /\ closes' = IF db # NilDB THEN CloseHandle(db) ELSE closes
    /\ \E closeErr \in (IF db # NilDB THEN BOOLEAN ELSE {FALSE}) :
          LGotoCalling(l, "tc_assign", IF closeErr THEN {LoggerCall("mu")} ELSE {})
    /\ UNCHANGED <<db, mu, recVars, restVars, failsLeft, clientVars, newDB, lerr,
                   currentDelay, fails>>

\* db = newDB; mu.Unlock(); return true
TcAssign(l) ==
    /\ lpc[l] = "tc_assign"
    /\ db' = newDB[l]
    /\ mu' = MuUnlock
    /\ newDB' = [newDB EXCEPT ![l] = NilDB]
    /\ LGoto(l, "l_succ")
    /\ UNCHANGED <<closes, recVars, restVars, failsLeft, clientVars, lerr, currentDelay, fails>>

\* a success branch that forgets to clear the reconnecting flag
LSuccessKeepsFlag(l) ==
    /\ lpc[l] = "l_succ"
    /\ isConnected' = TRUE
    /\ retryCount' = 0
    /\ lastError' = "nil"
    /\ LGoto(l, "l_logsucc")
    /\ UNCHANGED <<connVars, reconnecting, errorHistory, recorded, cancelled, restVars, failsLeft,
                   clientVars, newDB, lerr, currentDelay, fails>>

\* success branch: isConnected = true; reconnecting = false; retryCount = 0;
\* lastError = nil, under r.mu
LSuccess(l) ==
    /\ lpc[l] = "l_succ"
    /\ RmuLock(LId(l))
    /\ isConnected' = TRUE
    /\ reconnecting' = FALSE
    /\ retryCount' = 0
    /\ lastError' = "nil"
    /\ LGoto(l, "l_logsucc")
    /\ UNCHANGED <<connVars, errorHistory, recorded, cancelled, restVars, failsLeft, clientVars,
                   newDB, lerr, currentDelay, fails>>

\* reconnLogger.LogSuccess(successRetryCount); return
LLogSuccess(l) ==
    /\ lpc[l] = "l_logsucc"
    /\ LReturnCalling(l, {LoggerCall(NoLock)})
    /\ UNCHANGED <<connVars, recVars, restVars, failsLeft, clientVars>>

\* a loop that gives up after its second failed attempt
LFailGiveUp(l) ==
    /\ lpc[l] = "l_fail"
    /\ retryCount' = retryCount + 1
    /\ IF fails[l] >= 1 THEN LReturn(l)
       ELSE /\ fails' = [fails EXCEPT ![l] = fails[l] + 1]
            /\ LGoto(l, "l_wait")
            /\ UNCHANGED <<newDB, lerr, currentDelay>>
    /\ UNCHANGED <<connVars, isConnected, reconnecting, lastError, errorHistory, recorded,
                   cancelled, restVars, failsLeft, clientVars>>

\* LogRetry(retryCount, ...) logs the first three retries and every tenth; in
\* between it logs when 30 seconds have passed since its last progress report
LogRetryCalls(count) ==
    IF count <= 3 \/ count % 10 = 0 THEN {{LoggerCall(NoLock)}}
    ELSE {{LoggerCall(NoLock)}, {}}

\* failure branch: r.retryCount++ under r.mu; reconnLogger.LogRetry(...)
\* (fails counts the failed attempts of this invocation)
LFail(l) ==
    /\ lpc[l] = "l_fail"
    /\ RmuLock(LId(l))
    /\ retryCount' = retryCount + 1
    /\ fails' = [fails EXCEPT ![l] = fails[l] + 1]
    /\ \E calls \in LogRetryCalls(retryCount + 1) : LGotoCalling(l, "l_wait", calls)
    /\ UNCHANGED <<connVars, isConnected, reconnecting, lastError, errorHistory, recorded,
                   cancelled, restVars, failsLeft, clientVars, newDB, lerr, currentDelay>>

\* the timer of time.After(currentDelay) expires
TimerFires(l) ==
    /\ lpc[l] = "l_wait"
    /\ LGoto(l, "l_fired")
    /\ UNCHANGED <<connVars, recVars, restVars, failsLeft, clientVars, newDB, lerr,
                   currentDelay, fails>>

\* a plain sleep: only the timer ends the wait
ReadyCasesSleep(l) == IF lpc[l] = "l_fired" THEN {"timer"} ELSE {}

\* the ready cases of select { case <-r.ctx.Done(): ...; case <-time.After(...): ... }
ReadyCases(l) ==
    (IF CtxDone THEN {"done"} ELSE {}) \cup (IF lpc[l] = "l_fired" THEN {"timer"} ELSE {})

\* the select blocks until a case is ready and takes any ready one
LWait(l) ==
    /\ lpc[l] \in {"l_wait", "l_fired"}
    /\ \E case \in ReadyCases(l) :
          IF case = "done" THEN LReturn(l)
          ELSE /\ currentDelay' = [currentDelay EXCEPT ![l] = NextDelay(currentDelay[l])]
               /\ LGoto(l, "l_select")
               /\ UNCHANGED <<newDB, lerr, fails>>
    /\ UNCHANGED <<connVars, recVars, restVars, failsLeft, clientVars>>

tryConnect(l) ==
    \/ TcOpen(l)
    \/ TcPing(l)
    \/ TcRecord(l)
    \/ TcCloseNew(l)
    \/ TcLock(l)
    \/ TcCloseOld(l)
    \/ TcAssign(l)

reconnectionLoop(l) ==
    \/ LStart(l)
    \/ LSelect(l)
    \/ tryConnect(l)
    \/ LSuccess(l)
    \/ LLogSuccess(l)
    \/ LFail(l)
    \/ TimerFires(l)
    \/ LWait(l)

\* ---------------------------------------------------------------- systems
\* Spec: the Reconnector's own entry points called by concurrent flows
Next ==
    \/ \E c \in Clients :
          \/ CallStartReconnection(c)
          \/ CallStopReconnection(c)
          \/ CallOnConnectionLost(c)
          \/ SrLock(c)
          \/ SrGo(c)
          \/ StopCancel(c)
    \/ \E l \in Loops : reconnectionLoop(l)

Spec == Init /\ [][Next]_vars

\* SpecBackoff: one flow starts and stops reconnection; long runs of failures
InitBackoff == InitWith(MaxFailsBackoff)
NextBackoff ==
    \/ CallStartReconnection(1)
    \/ CallStopReconnection(1)
    \/ SrGo(1)
    \/ StopCancel(1)
    \/ \E l \in Loops : reconnectionLoop(l)

SpecBackoff == InitBackoff /\ [][NextBackoff]_vars

\* SpecHandle: the main flow runs the lifecycle hooks as main() does, InitDB at
\* start-up and the deferred CloseDB at exit, once each, while a request flow
\* asks for the status and the retry loop swaps handles
MainFlow == 1
RequestFlow == 2
\* main() has not called InitDB yet (InitDB returns an error, nil or panics;
\* in SpecHandle only CloseDB cancels the context)
BeforeInitDB == cret[MainFlow] = "none" /\ ~cancelled
\* InitDB has returned to main() and the deferred CloseDB has not run
BeforeCloseDB == cret[MainFlow] \in {"nil", "error"} /\ ~cancelled
MainInitDB == BeforeInitDB /\ CallInitDB(MainFlow)
MainCloseDB == BeforeCloseDB /\ CallCloseDB(MainFlow)
InitHandle == InitWith(MaxFailsHandle)
NextHandle ==
    \/ MainInitDB
    \/ InitOpen(MainFlow)
    \/ InitPing(MainFlow)
    \/ InitSet(MainFlow)
    \/ MainCloseDB
    \/ StopCancel(MainFlow)
    \/ CloseLock(MainFlow)
    \/ CloseClose(MainFlow)
    \/ CloseNil(MainFlow)
    \/ CallCheckStatus(RequestFlow)
    \/ CsPing(RequestFlow)
    \/ CsQuery(RequestFlow)
    \/ OclLock(RequestFlow)
    \/ CsIsRec(RequestFlow)
    \/ \E c \in {MainFlow, RequestFlow} : SrLock(c) \/ SrGo(c)
    \/ \E l \in Loops : reconnectionLoop(l)

SpecHandle == InitHandle /\ [][NextHandle]_vars

\* SpecLive: request flows report lost connections and ask for the status;
\* StopReconnection and CloseDB are never called, the DSN is valid and the
\* network fails the loop MaxFailsLive times at most.  Goroutines are scheduled
\* fairly and sync.Mutex does not starve a waiter.
InitLive == InitWith(MaxFailsLive) /\ dsnOk
RequestStep(c) ==
    \/ OclLock(c)
    \/ SrLock(c)
    \/ SrGo(c)
    \/ CsPing(c)
    \/ CsQuery(c)
    \/ CsIsRec(c)
NextLive ==
    \/ \E c \in Clients :
          \/ CallOnConnectionLost(c)
          \/ CallCheckStatus(c)
          \/ RequestStep(c)
    \/ \E l \in Loops : reconnectionLoop(l)
FairLive ==
    /\ \A c \in Clients : SF_vars(RequestStep(c))
    /\ \A l \in Loops : WF_vars(reconnectionLoop(l)) /\ SF_vars(TcLock(l))

SpecLive == InitLive /\ [][NextLive]_vars /\ FairLive

\* SpecStatus: request flows ask for the status and read the reconnector's
\* state while the retry loop, started by a lost connection, is at work
InitStatus == InitWith(MaxFailsStatus)
StatusRead(c) ==
    \/ IsConnected(c)
    \/ IsReconnecting(c)
    \/ GetRetryCount(c)
NextStatus ==
    \/ \E c \in Clients :
          \/ CallOnConnectionLost(c)
          \/ CallCheckStatus(c)
          \/ RequestStep(c)
          \/ StatusRead(c)
    \/ \E l \in Loops : reconnectionLoop(l)

SpecStatus == InitStatus /\ [][NextStatus]_vars

\* SpecRetry: one flow makes every call of the package in turn, in any order,
\* while the retry loops run
InitRetry == InitWith(MaxFailsRetry)
AnyCall(c) ==
    \/ CallStartReconnection(c)
    \/ CallStopReconnection(c)
    \/ CallOnConnectionLost(c)
    \/ CallCheckConnection(c)
    \/ CallCheckStatus(c)
    \/ CallInitDB(c)
    \/ CallCloseDB(c)
\* the steps inside the calls
CallStep(c) ==
    \/ SrLock(c) \/ SrGo(c) \/ StopCancel(c) \/ OclLock(c)
    \/ CcPing(c) \/ CcSet(c)
    \/ CsPing(c) \/ CsIsRec(c) \/ CsQuery(c)
    \/ InitOpen(c) \/ InitPing(c) \/ InitSet(c)
    \/ CloseLock(c) \/ CloseClose(c) \/ CloseNil(c)
NextRetry ==
    \/ AnyCall(MainFlow)
    \/ CallStep(MainFlow)
    \/ \E l \in Loops : reconnectionLoop(l)

SpecRetry == InitRetry /\ [][NextRetry]_vars

\* ------------------------------------------------------------ DatabaseLogger
Levels == {LogLevelDebug, LogLevelInfo, LogLevelWarn}
Messages == {"a", "b"}
MaxEntriesInputs == {0, 1, 2}
NewEntry(level, message) == [level |-> level, message |-> message, count |-> 1]
\* suppressDuplicates && lastEntry != nil && same message && same level
IsDuplicate(level, message) ==
    /\ suppressDuplicates
    /\ lastEntry # NoEntry
    /\ lastEntry.message = message
    /\ lastEntry.level = level

\* what an addEntry call at or above the threshold did: whether it reached
\* outputToStdLog (only a call that appends does), the entry it evicted, and
\* whether it repeats the last entry logged before a Clear that no such call
\* has followed
AddEntryDid(level, message, printed) ==
    [op |-> "addEntry", printed |-> printed,
     evicted |-> IF printed /\ Len(entries) >= maxEntries THEN entries[1] ELSE NoEntry,
     afterClear |-> lastOp.op = "Clear" /\ lastOp.level = level
                    /\ lastOp.message = message]

\* an eviction that drops the newest entry
EvictNewest(seq) == SubSeq(seq, 1, Len(seq) - 1)

\* dl.entries = dl.entries[1:]
Evict(seq) == Tail(seq)

\* addEntry(level, message, ...).  lastEntry points to the local variable
\* `entry`, of which append stored a copy in the buffer: a merge counts on
\* that variable, not on the stored entry.
addEntry(level, message) ==
    /\ ~logPanic
    /\ IF level < currentLevel
       THEN UNCHANGED logVars
       ELSE IF IsDuplicate(level, message)
       THEN /\ lastEntry.count < MaxRepeat
            /\ lastEntry' = [lastEntry EXCEPT !.count = @ + 1]
            /\ merged' = merged + 1
            /\ lastOp' = AddEntryDid(level, message, FALSE)
            /\ UNCHANGED <<entries, maxEntries, currentLevel, suppressDuplicates,
                           logPanic, held>>
       ELSE IF Len(entries) >= maxEntries /\ entries = <<>>
       THEN /\ logPanic' = TRUE
            /\ lastOp' = AddEntryDid(level, message, FALSE)
            /\ UNCHANGED <<entries, maxEntries, currentLevel, suppressDuplicates,
                           lastEntry, merged, held>>
       ELSE /\ Len(entries) >= maxEntries \/ Len(entries) < MaxLogLen
            /\ entries' = Append(IF Len(entries) >= maxEntries THEN Evict(entries)
                                 ELSE entries, NewEntry(level, message))
            /\ lastEntry' = NewEntry(level, message)
            /\ merged' = 1
            /\ lastOp' = AddEntryDid(level, message, TRUE)
            /\ UNCHANGED <<maxEntries, currentLevel, suppressDuplicates, logPanic, held>>
    /\ UNCHANGED <<sysVars, dsnOk, anVars>>

SetLogLevel(level) ==
    /\ ~logPanic
    /\ currentLevel' = level
    /\ UNCHANGED <<entries, maxEntries, suppressDuplicates, lastEntry, merged,
                   logPanic, lastOp, held, sysVars, dsnOk, anVars>>

SetMaxEntries(max) ==
    /\ ~logPanic
    /\ maxEntries' = max
    /\ UNCHANGED <<entries, currentLevel, suppressDuplicates, lastEntry, merged,
                   logPanic, lastOp, held, sysVars, dsnOk, anVars>>

SetSuppressDuplicates(suppress) ==
    /\ ~logPanic
    /\ suppressDuplicates' = suppress
    /\ UNCHANGED <<entries, maxEntries, currentLevel, lastEntry, merged,
                   logPanic, lastOp, held, sysVars, dsnOk, anVars>>

\* a Clear that empties the buffer and leaves lastEntry as it is
ClearBufferOnly ==
    /\ ~logPanic
    /\ entries' = <<>>
    /\ lastOp' = [op |-> "Clear", level |-> lastEntry.level,
                  message |-> lastEntry.message]
    /\ UNCHANGED <<lastEntry, merged, maxEntries, currentLevel, suppressDuplicates,
                   logPanic, held, sysVars, dsnOk, anVars>>

\* dl.entries = make([]LogEntry, 0); dl.lastEntry = nil
Clear ==
    /\ ~logPanic
    /\ entries' = <<>>
    /\ lastEntry' = NoEntry
    /\ merged' = 0
    /\ lastOp' = [op |-> "Clear", level |-> lastEntry.level,
                  message |-> lastEntry.message]
    /\ UNCHANGED <<maxEntries, currentLevel, suppressDuplicates, logPanic, held,
                   sysVars, dsnOk, anVars>>

\* GetEntries returns a copy of the buffer
GetEntries == entries
\* the n oldest entries
GetRecentEntriesOldest(n) ==
    IF n <= 0 \/ Len(entries) = 0 THEN <<>>
    ELSE SubSeq(entries, 1, Min(n, Len(entries)))

\* GetRecentEntries(n): the last n entries, all of them if there are fewer
GetRecentEntries(n) ==
    IF n <= 0 \/ Len(entries) = 0 THEN <<>>
    ELSE SubSeq(entries, (IF Len(entries) - n < 0 THEN 0 ELSE Len(entries) - n) + 1,
                Len(entries))

\* a slice returned without copying: it shows the logger's storage
ReturnedSliceShared(op, n, seq) ==
    [op |-> op, n |-> n, shared |-> TRUE, value |-> seq]

\* entries := make([]LogEntry, len(...)); copy(entries, ...); return entries:
\* a slice with an array of its own, holding the entries by value
ReturnedSlice(op, n, seq) ==
    [op |-> op, n |-> n, shared |-> FALSE, value |-> seq]

\* a caller calls GetEntries() and keeps the slice
CallGetEntries ==
    /\ ~logPanic
    /\ held' = ReturnedSlice("GetEntries", 0, GetEntries)
    /\ UNCHANGED <<entries, maxEntries, currentLevel, suppressDuplicates, lastEntry,
                   merged, logPanic, lastOp, sysVars, dsnOk, anVars>>

\* a caller calls GetRecentEntries(n) and keeps the slice
CallGetRecentEntries(n) ==
    /\ ~logPanic
    /\ held' = ReturnedSlice("GetRecentEntries", n, GetRecentEntries(n))
    /\ UNCHANGED <<entries, maxEntries, currentLevel, suppressDuplicates, lastEntry,
                   merged, logPanic, lastOp, sysVars, dsnOk, anVars>>

\* what the caller reads in the slice it holds
Observed ==
    IF ~held.shared THEN held.value
    ELSE IF held.op = "GetEntries" THEN GetEntries
    ELSE GetRecentEntries(held.n)

InitLog == InitWith(0)
NextLog ==
    \/ \E level \in Levels, message \in Messages : addEntry(level, message)
    \/ \E level \in Levels : SetLogLevel(level)
    \/ \E max \in MaxEntriesInputs : SetMaxEntries(max)
    \/ \E suppress \in BOOLEAN : SetSuppressDuplicates(suppress)
    \/ Clear

SpecLog == InitLog /\ [][NextLog]_vars

\* the logger with readers of the buffer
RecentInputs == {-1, 0, 1, 2, 4}
InitLogRead == InitWith(0)
NextLogRead ==
    \/ \E level \in Levels, message \in Messages : addEntry(level, message)
    \/ \E max \in MaxEntriesInputs : SetMaxEntries(max)
    \/ Clear
    \/ CallGetEntries
    \/ \E n \in RecentInputs : CallGetRecentEntries(n)

SpecLogRead == InitLogRead /\ [][NextLogRead]_vars

\* ------------------------------------------------------------ ErrorAnalyzer
\* for _, keyword := range pattern.Keywords, from the j-th keyword on:
\* strings.Contains(errorMsgLower, strings.ToLower(keyword))
RECURSIVE AnyKeyword(_, _, _)
AnyKeyword(errorMsgLower, keywords, j) ==
    IF j > Len(keywords) THEN FALSE
    ELSE IF Contains(errorMsgLower, ToLower(keywords[j])) THEN TRUE
    ELSE AnyKeyword(errorMsgLower, keywords, j + 1)

\* for _, pattern := range ea.patterns, from the i-th pattern on; the default
\* after the loop
RECURSIVE ScanPatterns(_, _)
ScanPatterns(errorMsgLower, i) ==
    IF i > Len(patterns) THEN UnknownPattern
    ELSE IF AnyKeyword(errorMsgLower, patterns[i].keywords, 1) THEN patterns[i]
    ELSE ScanPatterns(errorMsgLower, i + 1)

\* a scan of the message as it is spelled
matchErrorPatternAsSpelled(errorMsg) == ScanPatterns(errorMsg, 1)

\* errorMsgLower := strings.ToLower(errorMsg), then the scan
matchErrorPattern(errorMsg) == ScanPatterns(ToLower(errorMsg), 1)

\* what enhanceSuggestion appends to pattern.Suggestion
NoHint == ""
HintNetwork == " | retried %d times, check the stability of the network"
HintTimeout == " | %d timeouts in a row, raise the configured timeout"
HintAuth == " | authentication errors are not solved by retrying, check the configuration now"

\* an augmentation that starts at the threshold itself: at 10 and at 5 retries
enhanceSuggestionFromThreshold(pattern, count) ==
    IF count > 0
    THEN CASE pattern.type = ErrorTypeNetwork ->
                  IF count >= 10 THEN HintNetwork ELSE NoHint
           [] pattern.type = ErrorTypeTimeout ->
                  IF count >= 5 THEN HintTimeout ELSE NoHint
           [] pattern.type = ErrorTypeAuth -> HintAuth
           [] OTHER -> NoHint
    ELSE NoHint

\* enhanceSuggestion(pattern, retryCount): the text appended to the
\* pattern's suggestion
enhanceSuggestion(pattern, count) ==
    IF count > 0
    THEN CASE pattern.type = ErrorTypeNetwork ->
                  IF count > 10 THEN HintNetwork ELSE NoHint
           [] pattern.type = ErrorTypeTimeout ->
                  IF count > 5 THEN HintTimeout ELSE NoHint
           [] pattern.type = ErrorTypeAuth -> HintAuth
           [] OTHER -> NoHint
    ELSE NoHint

\* hourKey := timestamp.Format("2006-01-02-15")
HourKey(timestamp) == timestamp \div TicksPerHour

\* updateErrorSummary, on the summary of the key: create it if absent, then
\* Count++, LastSeen, FrequencyData[hourKey]++, and a new example while fewer
\* than maxExamples are kept.
updateErrorSummary(summary, errorMsg, timestamp) ==
    LET s == IF summary = NoSummary
             THEN [count |-> 0, firstSeen |-> timestamp, lastSeen |-> 0,
                   frequency |-> EmptyBag, examples |-> <<>>, resolved |-> FALSE]
             ELSE summary
        found == \E i \in 1..Len(s.examples) : s.examples[i] = errorMsg
    IN [count |-> s.count + 1,
        firstSeen |-> s.firstSeen,
        lastSeen |-> timestamp,
        frequency |-> s.frequency (+) SetToBag({HourKey(timestamp)}),
        resolved |-> s.resolved,
        examples |-> IF Len(s.examples) < MaxExamples /\ ~found
                     THEN Append(s.examples, errorMsg) ELSE s.examples]

\* logErrorAnalysis: the level of the line written for a severity
AnalysisLevel(severity) ==
    CASE severity = 5 -> LogLevelError
      [] severity = 4 -> LogLevelWarn
      [] severity = 3 -> LogLevelInfo
      [] OTHER -> LogLevelDebug

\* AnalyzeError(err, retryCount) with err != nil and err.Error() = errorMsg.
\* Of the call only updateErrorSummary writes shared state, under ea.mu, so
\* the call is one step; the line it logs is recorded in the details.
AnalyzeError(errorMsg, count) ==
    /\ analyzed < MaxAnalyzed
    /\ analyzed' = analyzed + 1
    /\ LET pattern == matchErrorPattern(errorMsg)
           key == SummaryKey(pattern.type, pattern.code)
       IN /\ details' = [type |-> pattern.type, code |-> pattern.code,
                         message |-> errorMsg,
                         hint |-> enhanceSuggestion(pattern, count),
                         retryCount |-> count,
                         logged |-> AnalysisLevel(pattern.severity)]
          /\ summaries' = [summaries EXCEPT
                             ![key] = updateErrorSummary(@, errorMsg, analyzed + 1)]
    /\ UNCHANGED <<sysVars, dsnOk, logVars, anCallVars>>

\* AnalyzeError(nil, retryCount): if err == nil { return nil }
AnalyzeErrorNil(count) ==
    /\ analyzed < MaxAnalyzed
    /\ analyzed' = analyzed + 1
    /\ details' = NoDetails
    /\ UNCHANGED <<summaries, sysVars, dsnOk, logVars, anCallVars>>

\* the error messages and retry counts AnalyzeError is called with
ErrorMessages == UNION {[1..n -> Fragments] : n \in 1..MaxMsgLen}
RetryCounts == {0, 1, 5, 6, 10, 11}

InitAnalyzer == InitWith(0)
NextAnalyzer ==
    \/ \E errorMsg \in ErrorMessages, count \in RetryCounts : AnalyzeError(errorMsg, count)
    \/ \E count \in RetryCounts : AnalyzeErrorNil(count)

SpecAnalyzer == InitAnalyzer /\ [][NextAnalyzer]_vars

\* ------------------------------------------ ErrorAnalyzer, concurrent callers
\* a Lock that does not wait for the holder
EaLockNoWait(p) == TRUE

\* ea.mu.Lock() / ea.mu.RLock() by p returns once no writer holds ea.mu; the
\* read sections are one step each
EaLock(p) == eamu = Free

\* time.Now(): the instants it can return, none before the last one returned
Now == clock..Min(clock + 1, MaxClock)

\* AnalyzeError, lines 130-149: now := time.Now(), matchErrorPattern under
\* ea.mu.RLock, the details
AnalyzeErrorCall(a, errorMsg, count) ==
    /\ apc[a] = "idle"
    /\ EaLock(AId(a))
    /\ analyzed' = analyzed + 1
    /\ \E now \in Now :
          /\ clock' = now
          /\ LET pattern == matchErrorPattern(errorMsg)
             IN acall' = [acall EXCEPT ![a] =
                    [key |-> SummaryKey(pattern.type, pattern.code),
                     errorMsg |-> errorMsg,
                     timestamp |-> now,
                     details |-> [type |-> pattern.type, code |-> pattern.code,
                                  message |-> errorMsg,
                                  hint |-> enhanceSuggestion(pattern, count),
                                  retryCount |-> count,
                                  logged |-> AnalysisLevel(pattern.severity)],
                     summary |-> NoSummary]]
    /\ apc' = [apc EXCEPT ![a] = "update"]
    /\ UNCHANGED <<summaries, details, eamu, matched, aret, sysVars, dsnOk, logVars>>

\* updateErrorSummary, lines 209-225: ea.mu.Lock(), look the summary up
UpdateLock(a) ==
    /\ apc[a] = "update"
    /\ EaLock(AId(a))
    /\ eamu' = AId(a)
    /\ acall' = [acall EXCEPT ![a].summary = summaries[acall[a].key]]
    /\ matched' = [matched EXCEPT ![acall[a].key] = @ + 1]
    /\ apc' = [apc EXCEPT ![a] = "write"]
    /\ UNCHANGED <<summaries, details, analyzed, clock, aret, sysVars, dsnOk, logVars>>

\* updateErrorSummary, lines 227-246 and the deferred Unlock: the writes
UpdateWrite(a) ==
    /\ apc[a] = "write"
    /\ summaries' = [summaries EXCEPT ![acall[a].key] =
           updateErrorSummary(acall[a].summary, acall[a].errorMsg, acall[a].timestamp)]
    /\ eamu' = Free
    /\ apc' = [apc EXCEPT ![a] = "log"]
    /\ UNCHANGED <<details, analyzed, clock, acall, matched, aret, sysVars, dsnOk, logVars>>

\* AnalyzeError, lines 155-157: logErrorAnalysis, return details
LogAnalysis(a) ==
    /\ apc[a] = "log"
    /\ details' = acall[a].details
    /\ acall' = [acall EXCEPT ![a] = NoCall]
    /\ apc' = [apc EXCEPT ![a] = "idle"]
    /\ UNCHANGED <<summaries, analyzed, clock, eamu, matched, aret, sysVars, dsnOk, logVars>>

\* the keys the map holds
Present == {k \in SummaryKeys : summaries[k] # NoSummary}

\* a purge that takes the summaries last seen at the cutoff too
IsOldOrAtCutoff(summary, cutoff) == summary.lastSeen <= cutoff

\* summary.LastSeen.Before(cutoff)
IsOld(summary, cutoff) == summary.lastSeen < cutoff

\* ClearOldErrors(olderThan), the whole of it under ea.mu.Lock; the line it
\* logs when cleared > 0 is written with ea.mu held
ClearOldErrors(olderThan) ==
    /\ EaLock(<<"accessor", 0>>)
    /\ \E now \in Now :
          /\ clock' = now
          /\ LET cutoff == now - olderThan
                 old == {k \in Present : IsOld(summaries[k], cutoff)}
             IN /\ summaries' = [k \in SummaryKeys |->
                                    IF k \in old THEN NoSummary ELSE summaries[k]]
                /\ matched' = [k \in SummaryKeys |->
                                    IF k \in old THEN 0 ELSE matched[k]]
                /\ aret' = [op |-> "ClearOldErrors", olderThan |-> olderThan,
                            now |-> now, value |-> Cardinality(old),
                            calls |-> IF old # {} THEN {LoggerCall("ea.mu")} ELSE {}]
    /\ UNCHANGED <<details, analyzed, eamu, apc, acall, sysVars, dsnOk, logVars>>

\* MarkErrorResolved(errorType, code), under ea.mu.Lock
MarkErrorResolved(type, code) ==
    /\ EaLock(<<"accessor", 0>>)
    /\ LET key == SummaryKey(type, code)
       IN IF key \in Present
          THEN summaries' = [summaries EXCEPT ![key].resolved = TRUE]
          ELSE UNCHANGED summaries
    /\ UNCHANGED <<details, analyzed, anCallVars, sysVars, dsnOk, logVars>>

\* the orders in which range over the map can yield the keys
Orders(keys) ==
    {order \in [1..Cardinality(keys) -> keys] :
        \A i, j \in 1..Cardinality(keys) : order[i] = order[j] => i = j}

\* a comparison that asks for the larger count to come later
OutOfOrderAscending(a, b) == summaries[a].count > summaries[b].count

\* summaries[j].Count < summaries[j+1].Count
OutOfOrder(a, b) == summaries[a].count < summaries[b].count

Swap(seq, j) == [seq EXCEPT ![j] = seq[j + 1], ![j + 1] = seq[j]]
\* for j := 0; j < len(summaries)-i-1; j++, with positions counted from 1
RECURSIVE BubbleInner(_, _, _)
BubbleInner(seq, i, j) ==
    IF j >= Len(seq) - i THEN seq
    ELSE BubbleInner(IF OutOfOrder(seq[j], seq[j + 1]) THEN Swap(seq, j) ELSE seq,
                     i, j + 1)
\* for i := 0; i < len(summaries)-1; i++
RECURSIVE BubbleOuter(_, _)
BubbleOuter(seq, i) ==
    IF i >= Len(seq) - 1 THEN seq
    ELSE BubbleOuter(BubbleInner(seq, i, 1), i + 1)
BubbleSort(seq) == BubbleOuter(seq, 0)

\* if limit > 0 && limit < len(summaries) { summaries = summaries[:limit] }
Limit(seq, limit) ==
    IF limit > 0 /\ limit < Len(seq) THEN SubSeq(seq, 1, limit) ELSE seq

\* GetTopErrors(limit), the whole of it under ea.mu.RLock: the slice returned
\* holds the pointers of the map, here the keys
GetTopErrors(limit) ==
    /\ EaLock(<<"accessor", 0>>)
    /\ \E order \in Orders(Present) :
          aret' = [op |-> "GetTopErrors", limit |-> limit,
                   value |-> Limit(BubbleSort(order), limit)]
    /\ UNCHANGED <<summaries, details, analyzed, clock, eamu, apc, acall, matched,
                   sysVars, dsnOk, logVars>>

\* GetErrorTrends, under ea.mu.RLock: the totals over the summaries of the map
RECURSIVE TotalErrors(_)
TotalErrors(keys) ==
    IF keys = {} THEN 0
    ELSE LET k == CHOOSE x \in keys : TRUE
         IN summaries[k].count + TotalErrors(keys \ {k})
RECURSIVE HourlyData(_)
HourlyData(keys) ==
    IF keys = {} THEN EmptyBag
    ELSE LET k == CHOOSE x \in keys : TRUE
         IN summaries[k].frequency (+) HourlyData(keys \ {k})
GetErrorTrends ==
    [total_errors |-> TotalErrors(Present),
     hourly_data |-> HourlyData(Present),
     resolved_count |-> Cardinality({k \in Present : summaries[k].resolved})]

\* the inputs of the analyzer's callers
SummaryMessages == {<<"timeout">>, <<"Access Denied">>}
SummaryRetryCounts == {1}
OlderThanInputs == {0, 1}
Limits == {0, 1, 2, 3}
\* the keys MarkErrorResolved is called with: those of the messages, and one
\* the map never holds
ResolvedKeys ==
    {SummaryKey(matchErrorPattern(m).type, matchErrorPattern(m).code) :
        m \in SummaryMessages} \cup {SummaryKey(ErrorTypeSQL, "SQL_002")}

\* the messages of SpecTop: three keys
TopMessages == SummaryMessages \cup {<<"dial tcp 127.0.0.1:3306: ">>}

\* concurrent AnalyzeError calls, maxCalls of them, with the given messages
AnalystStep(messages, maxCalls) ==
    \E a \in Analysts :
        \/ /\ analyzed < maxCalls
           /\ \E errorMsg \in messages, count \in SummaryRetryCounts :
                 AnalyzeErrorCall(a, errorMsg, count)
        \/ UpdateLock(a)
        \/ UpdateWrite(a)
        \/ LogAnalysis(a)

\* AnalyzeError calls with purges and resolutions
InitSummary == InitWith(0)
NextSummary ==
    \/ AnalystStep(SummaryMessages, MaxSummaryCalls)
    \/ \E olderThan \in OlderThanInputs : ClearOldErrors(olderThan)
    \/ \E k \in ResolvedKeys : MarkErrorResolved(k[1], k[2])

SpecSummary == InitSummary /\ [][NextSummary]_vars

\* AnalyzeError calls with readers of the most frequent errors
\* (time has reached the last instant of the model: the summaries differ in
\* their counts only)
InitTop == InitAt(0, MaxClock)
NextTop ==
    \/ AnalystStep(TopMessages, MaxTopCalls)
    \/ \E limit \in Limits : GetTopErrors(limit)

SpecTop == InitTop /\ [][NextTop]_vars

\* --------------------------------------------------------- ReconnectionLogger
\* time.Now() in seconds: the instants it can return after the last one
Elapsed == {0, 1, 29, 30, 31}
NowSeconds == {clock + d : d \in Elapsed} \cap 0..MaxRetryTime

\* the line LogRetry writes, by the first case of its switch that applies
LineFirst == "first"          \* Info, "first reconnection attempt"
LineBrief == "brief"          \* Info, "reconnection attempt %d"
LineDetailed == "detailed"    \* Warn, with elapsed time, next delay, last error
LineProgress == "progress"    \* Warn, with elapsed time
LineNone == "none"            \* shouldLog stays false

\* a LogRetry whose time-based case does not record when it reported
RetryLineKeepsProgressTime(count, now) ==
    CASE count = 1 -> [line |-> LineFirst, lastProgressTime |-> lastProgressTime]
      [] count <= 3 -> [line |-> LineBrief, lastProgressTime |-> lastProgressTime]
      [] count % 10 = 0 -> [line |-> LineDetailed, lastProgressTime |-> lastProgressTime]
      [] now - lastProgressTime >= ProgressInterval ->
             [line |-> LineProgress, lastProgressTime |-> lastProgressTime]
      [] OTHER -> [line |-> LineNone, lastProgressTime |-> lastProgressTime]

\* switch { case retryCount == 1; case retryCount <= 3; case retryCount%10 == 0;
\* case now.Sub(rl.lastProgressTime) >= rl.progressInterval }: the line and
\* the value of rl.lastProgressTime after the switch
RetryLine(count, now) ==
    CASE count = 1 -> [line |-> LineFirst, lastProgressTime |-> lastProgressTime]
      [] count <= 3 -> [line |-> LineBrief, lastProgressTime |-> lastProgressTime]
      [] count % 10 = 0 -> [line |-> LineDetailed, lastProgressTime |-> lastProgressTime]
      [] now - lastProgressTime >= ProgressInterval ->
             [line |-> LineProgress, lastProgressTime |-> now]
      [] OTHER -> [line |-> LineNone, lastProgressTime |-> lastProgressTime]

\* ReconnectionLogger.StartReconnection, called once by the loop that made
\* the logger: rl.startTime = time.Now(); rl.lastProgressTime = rl.startTime
RlStartReconnection ==
    /\ rlOut = NoReturn
    /\ \E now \in NowSeconds :
          /\ clock' = now
          /\ startTime' = now
          /\ lastProgressTime' = now
          /\ rlOut' = [op |-> "StartReconnection", now |-> now]
    /\ UNCHANGED <<progressLines, connVars, rmu, recVars, failsLeft, clientVars, loopVars,
                   dsnOk, logVars, summaries, details, analyzed, eamu, apc, acall,
                   matched, aret, lockVars>>

\* ReconnectionLogger.LogRetry(retryCount, nextDelay, lastError)
LogRetry(count) ==
    /\ rlOut # NoReturn
    /\ \E now \in NowSeconds :
          /\ clock' = now
          /\ LET did == RetryLine(count, now)
             IN /\ lastProgressTime' = did.lastProgressTime
                /\ rlOut' = [op |-> "LogRetry", now |-> now, retryCount |-> count,
                             line |-> did.line]
                /\ progressLines' = IF did.line = LineProgress
                                    THEN Append(progressLines, now)
                                    ELSE progressLines
    /\ UNCHANGED <<startTime, connVars, rmu, recVars, failsLeft, clientVars, loopVars,
                   dsnOk, logVars, summaries, details, analyzed, eamu, apc, acall,
                   matched, aret, lockVars>>

\* the attempt numbers LogRetry is called with
RetryInputs == {1, 2, 3, 4, 9, 10, 11, 20}
InitLogRetry == InitWith(0)
NextLogRetry ==
    \/ RlStartReconnection
    \/ \E count \in RetryInputs : LogRetry(count)

SpecLogRetry == InitLogRetry /\ [][NextLogRetry]_vars

\* ------------------------------------------------------------ the four locks
\* Every call as the sequence of lock operations it performs, in the order of
\* the code; a read lock is taken as the write lock is.
LockMu == "mu"               \* the handle lock, connection.go
LockRmu == "r.mu"            \* Reconnector.mu
LockEa == "ea.mu"            \* ErrorAnalyzer.mu
LockDl == "dl.mu"            \* DatabaseLogger.mu
Lk(lock) == <<"Lock", lock>>
Ul(lock) == <<"Unlock", lock>>
Section(lock) == <<Lk(lock), Ul(lock)>>

\* an addEntry that asks the ErrorAnalyzer while it holds dl.mu
LogSectionAnalyzing == <<Lk(LockDl), Lk(LockEa), Ul(LockEa), Ul(LockDl)>>

\* addEntry at or above the threshold: dl.mu.Lock(); defer dl.mu.Unlock();
\* outputToStdLog takes no lock of the package
LogSection == Section(LockDl)
\* matchErrorPattern, updateErrorSummary, logErrorAnalysis
AnalyzeErrorLocks == Section(LockEa) \o Section(LockEa) \o LogSection
StartReconnectionLocks == Section(LockRmu)
StopReconnectionLocks == Section(LockRmu)
OnConnectionLostLocks == Section(LockRmu) \o LogSection \o StartReconnectionLocks
\* open fails; ping fails; success
InitDBLocks ==
    {Section(LockMu) \o LogSection,
     Section(LockMu) \o AnalyzeErrorLocks \o LogSection \o StartReconnectionLocks,
     Section(LockMu) \o LogSection \o Section(LockRmu)}
\* the handle is closed and the result logged with mu held; db is nil
CloseDBLocks ==
    {StopReconnectionLocks \o <<Lk(LockMu)>> \o LogSection \o <<Ul(LockMu)>>,
     StopReconnectionLocks \o Section(LockMu)}
\* ping fails: GetRetryCount, analyzeError, OnConnectionLost, IsReconnecting;
\* the query fails: analyzeError (a nil handle and success take no lock)
CheckStatusLocks ==
    {Section(LockRmu) \o AnalyzeErrorLocks \o OnConnectionLostLocks \o Section(LockRmu),
     AnalyzeErrorLocks}
CheckConnectionLocks == {OnConnectionLostLocks, Section(LockRmu)}
\* sql.Open fails; Ping fails, Close with or without error; the swap, closing
\* the old handle with or without error
tryConnectLocks ==
    {Section(LockRmu), Section(LockRmu) \o LogSection,
     <<Lk(LockMu)>> \o LogSection \o <<Ul(LockMu)>>, Section(LockMu)}
\* the start of the loop, and one attempt with what follows it: the success
\* branch and LogSuccess, or retryCount++ and LogRetry
reconnectionLoopLocks ==
    {LogSection} \cup {t \o Section(LockRmu) \o LogSection : t \in tryConnectLocks}
                 \cup {t \o Section(LockRmu) : t \in tryConnectLocks}
\* MarkErrorResolved and ClearOldErrors log with ea.mu held when they changed
\* something; the read accessors
AnalyzerLocks ==
    {AnalyzeErrorLocks, <<Lk(LockEa)>> \o LogSection \o <<Ul(LockEa)>>, Section(LockEa)}
LockScripts ==
    {LogSection, StartReconnectionLocks, StopReconnectionLocks, OnConnectionLostLocks}
        \cup InitDBLocks \cup CloseDBLocks \cup CheckStatusLocks \cup CheckConnectionLocks
        \cup reconnectionLoopLocks \cup AnalyzerLocks

Holder(lock) ==
    CASE lock = LockMu -> mu
      [] lock = LockRmu -> rmu
      [] lock = LockEa -> eamu
      [] lock = LockDl -> dlmu
SetHolder(lock, p) ==
    /\ mu' = IF lock = LockMu THEN p ELSE mu
    /\ rmu' = IF lock = LockRmu THEN p ELSE rmu
    /\ eamu' = IF lock = LockEa THEN p ELSE eamu
    /\ dlmu' = IF lock = LockDl THEN p ELSE dlmu
FlowFrame ==
    UNCHANGED <<db, closes, recVars, failsLeft, clientVars, loopVars, dsnOk, logVars,
                summaries, details, analyzed, clock, apc, acall, matched, aret, rlVars>>

\* a flow enters a call
FlowCall(c) ==
    /\ script[c] = <<>>
    /\ \E ops \in LockScripts : script' = [script EXCEPT ![c] = ops]
    /\ UNCHANGED <<mu, rmu, eamu, dlmu>>
    /\ FlowFrame
\* Lock() returns once the lock is free
Acquire(c) ==
    /\ script[c] # <<>> /\ Head(script[c])[1] = "Lock"
    /\ Holder(Head(script[c])[2]) = Free
    /\ SetHolder(Head(script[c])[2], CId(c))
    /\ script' = [script EXCEPT ![c] = Tail(@)]
    /\ FlowFrame
\* Unlock()
Release(c) ==
    /\ script[c] # <<>> /\ Head(script[c])[1] = "Unlock"
    /\ SetHolder(Head(script[c])[2], Free)
    /\ script' = [script EXCEPT ![c] = Tail(@)]
    /\ FlowFrame

InitLocks == InitWith(0)
NextLocks == \E c \in Clients : FlowCall(c) \/ Acquire(c) \/ Release(c)

SpecLocks == InitLocks /\ [][NextLocks]_vars

\* ================================================================ claims
Live(l) == lpc[l] # "idle"
LiveLoops == {l \in Loops : Live(l)}
\* loop l takes a step of its own
Steps(l) == lpc'[l] # lpc[l]
CSteps(c) == cpc'[c] # cpc[c]

\* C1: in every reachable state at most one reconnectionLoop goroutine is live
\* (launched and not yet returned).
C1_AtMostOneLoop == Cardinality(LiveLoops) <= 1

\* C2: StartReconnection called while the reconnecting flag is already true
\* launches no new loop and leaves isConnected, reconnecting, retryCount,
\* lastError, errorHistory and the shared handle unchanged; the call returns.
C2_StartNoOp ==
    [][\A c \in Clients :
          (reconnecting /\ (CallStartReconnection(c) \/ SrLock(c)))
          => /\ UNCHANGED <<isConnected, reconnecting, retryCount, lastError,
                            errorHistory, db, closes, lpc>>
             /\ cpc'[c] # "sr_go"]_vars
\* a nested StartReconnection is about to find the flag set while a loop runs
C2_Witness ==
    \E c \in Clients : cpc[c] = "sr_lock" /\ reconnecting /\ LiveLoops # {}

\* C5: once the context is cancelled, a loop waiting in its backoff delay can
\* return at once, its step out of the wait is the return unless the timer has
\* expired too, and in no case does it start another tryConnect;
\* StopReconnection itself always clears the flag, cancels and returns.
C5_StopWakesLoop ==
    [][/\ \A l \in Loops :
             /\ (cancelled /\ lpc[l] \in {"l_wait", "l_fired"}) => ENABLED LWait(l)
             /\ (cancelled /\ lpc[l] = "l_wait" /\ Steps(l))
                   => lpc'[l] \in {"idle", "l_fired"}
             /\ (cancelled /\ lpc[l] \in {"l_wait", "l_fired", "l_select"})
                   => lpc'[l] # "tc_open"
       /\ \A c \in Clients :
             /\ (CSteps(c) /\ cpc'[c] = "stop_cancel") => ~reconnecting'
             /\ cpc[c] = "stop_cancel" => ENABLED StopCancel(c)
             /\ (CSteps(c) /\ cpc[c] = "stop_cancel")
                   => cancelled' /\ cret'[c] # "panic"]_vars
\* a loop waits in its backoff delay, timer not expired, and Stop has completed
C5_Witness ==
    \E l \in Loops : lpc[l] = "l_wait" /\ cancelled /\ \A c \in Clients : cpc[c] = "idle"

\* C6: a loop returns only when the context is cancelled or after its
\* tryConnect succeeded; only StopReconnection cancels; after a failed attempt
\* and an expired delay, without cancellation, it goes on to the next attempt.
C6_LoopEndsOnlyByStopOrSuccess ==
    [][/\ \A l \in Loops :
             /\ (Live(l) /\ ~Live(l)') => (cancelled \/ lpc[l] = "l_logsucc")
             /\ (Steps(l) /\ lpc'[l] = "l_succ") => lpc[l] = "tc_assign"
             /\ (Steps(l) /\ lpc'[l] = "l_logsucc") => lpc[l] = "l_succ"
             /\ (~cancelled /\ lpc[l] = "l_fail") => ENABLED LFail(l)
             /\ (~cancelled /\ lpc[l] = "l_fail" /\ Steps(l)) => lpc'[l] = "l_wait"
             /\ (~cancelled /\ lpc[l] = "l_wait") => ENABLED TimerFires(l)
             /\ (~cancelled /\ lpc[l] = "l_fired") => ENABLED LWait(l)
             /\ (~cancelled /\ lpc[l] = "l_fired" /\ Steps(l)) => lpc'[l] = "l_select"
             /\ (~cancelled /\ lpc[l] = "l_select" /\ Steps(l)) => lpc'[l] = "tc_open"
       /\ (cancelled' /\ ~cancelled) => \E c \in Clients : cpc[c] = "stop_cancel"]_vars
\* a loop has failed twice and, not cancelled, starts its third attempt
C6_Witness ==
    \E l \in Loops : fails[l] >= 2 /\ lpc[l] = "tc_open" /\ ~cancelled

\* C7: a failing tryConnect leaves the shared handle variable unchanged and
\* does not close the shared handle; it sets lastError to the failure, appends
\* exactly one entry to errorHistory, closes the fresh handle that failed its
\* ping, and returns false.
HistoryAppended(old, new, msg) ==
    /\ Len(new) = Min(Len(old) + 1, HistoryMax)
    /\ new[Len(new)][2] = msg
    /\ \A i \in 1..(Len(new) - 1) : new[i] = old[i + Len(old) + 1 - Len(new)]
C7_FailedConnect ==
    [][\A l \in Loops :
          /\ (Steps(l) /\ lpc'[l] = "tc_rec") => UNCHANGED <<db, closes, errorHistory>>
          /\ (Steps(l) /\ lpc[l] = "tc_rec")
                => /\ UNCHANGED <<db, closes>>
                   /\ lastError' = lerr[l]
                   /\ HistoryAppended(errorHistory, errorHistory', lerr[l])
                   /\ lpc'[l] = (IF lerr[l] = "ping" THEN "tc_closenew" ELSE "l_fail")
          /\ (Steps(l) /\ lpc[l] = "tc_closenew")
                => /\ UNCHANGED <<db, errorHistory>>
                   /\ \A h \in Handles : h # newDB[l] => closes'[h] = closes[h]
                   /\ closes[newDB[l]] = 0 /\ closes'[newDB[l]] = 1
                   /\ newDB[l] # db
                   /\ lpc'[l] = "l_fail"
          /\ (Steps(l) /\ lpc'[l] = "l_fail") => newDB'[l] = NilDB]_vars
\* tryConnect has just failed on a ping while a shared handle is installed
C7_Witness ==
    \E l \in Loops : lpc[l] = "l_fail" /\ lerr[l] = "ping" /\ db # NilDB /\ closes[db] = 0

\* C4: within one invocation of reconnectionLoop the delay waited after the
\* k-th consecutive failed attempt is min(2^(k-1), 30) seconds; the delay never
\* decreases within the invocation, and a fresh invocation starts at 1 second.
BackoffDelay(k) == Min(2 ^ (k - 1), 30)
C4_Backoff ==
    [][\A l \in Loops :
          /\ lpc'[l] \in {"l_wait", "l_fired"}
                => (fails'[l] >= 1 /\ currentDelay'[l] = BackoffDelay(fails'[l]))
          /\ (Live(l) /\ Live(l)' /\ lpc[l] # "l_start")
                => currentDelay'[l] >= currentDelay[l]
          /\ (Steps(l) /\ lpc[l] = "l_start")
                => (currentDelay'[l] = 1 /\ fails'[l] = 0)]_vars
\* the seventh failed attempt of one invocation waits 30 seconds, as the sixth did
C4_Witness ==
    \E l \in Loops : lpc[l] = "l_wait" /\ fails[l] = 7 /\ currentDelay[l] = 30

\* C8: a successful tryConnect installs its fresh, open handle as the shared
\* handle and closes the previous one exactly once, inside one critical section
\* of mu: at most one flow is inside a critical section of mu, it is the holder,
\* and while tryConnect is inside its critical section no other flow changes the
\* shared handle variable or closes either handle; no handle is closed twice.
ClientInCS(c) == cpc[c] \in {"init_open", "close_close", "close_nil"}
LoopInCS(l) == lpc[l] \in {"tc_closeold", "tc_assign"}
InCS == {CId(c) : c \in {d \in Clients : ClientInCS(d)}}
           \cup {LId(l) : l \in {k \in Loops : LoopInCS(k)}}
C8_AtomicSwap ==
    [][/\ Cardinality(InCS) <= 1
       /\ \A p \in InCS : mu = p
       /\ \A h \in Handles : closes[h] <= 1
       /\ db # NilDB /\ mu = Free => closes[db] = 0
       /\ \A l \in Loops :
             /\ lpc[l] = "tc_lock" => (newDB[l] # NilDB /\ closes[newDB[l]] = 0)
             /\ (Steps(l) /\ lpc[l] = "tc_closeold")
                   => /\ db' = db
                      /\ db # NilDB => (closes[db] = 0 /\ closes'[db] = 1)
                      /\ \A h \in Handles : h # db => closes'[h] = closes[h]
             /\ (LoopInCS(l) /\ ~Steps(l))
                   => /\ UNCHANGED <<db, mu>>
                      /\ db # NilDB => closes'[db] = closes[db]
                      /\ closes'[newDB[l]] = closes[newDB[l]]
             /\ (Steps(l) /\ lpc[l] = "tc_assign")
                   => /\ db' = newDB[l] /\ closes'[db'] = 0
                      /\ db # NilDB => closes'[db] = 1
                      /\ mu' = Free]_vars
\* tryConnect has closed the previous handle and not yet assigned the new one,
\* while CloseDB waits for the lock
C8_Witness ==
    \E l \in Loops :
       /\ lpc[l] = "tc_assign" /\ db # NilDB /\ closes[db] = 1
       /\ \E c \in Clients : cpc[c] = "close_lock"

\* C10: under every interleaving with CloseDB, InitDB and the retry loop,
\* CheckStatus returns a status in {OK, Not Connected, Reconnecting, Failed};
\* it never crashes on a nil handle.
StatusValues == {"OK", "Not Connected", "Reconnecting", "Failed"}
C10_CheckStatusNeverCrashes ==
    cret[RequestFlow] \in StatusValues \cup {"none"}

\* C9: with StopReconnection never called, a valid DSN and finitely many failed
\* attempts, under fair scheduling every OnConnectionLost is eventually followed
\* by a state with isConnected = true, reconnecting = false, retryCount = 0 and
\* lastError cleared.
Reconnected == isConnected /\ ~reconnecting /\ retryCount = 0 /\ lastError = "nil"
C9_EventuallyReconnected ==
    \A c \in Clients : (cpc[c] = "sr_lock" /\ ~isConnected) ~> Reconnected
\* reconnected after attempts that failed
C9_Witness == Reconnected /\ errorHistory # <<>> /\ db # NilDB /\ LiveLoops = {}

\* C3: with suppression enabled and the level at or above the threshold,
\* N >= 1 consecutive addEntry calls with the same (level, message) leave
\* exactly one entry for them in the buffer, and that entry, as GetEntries and
\* GetRecentEntries return it, has repeat count N.
LastOf(seq) == seq[Len(seq)]
C3_RepeatCountStored ==
    [][/\ (merged' > merged /\ merged >= 1)
             => /\ Len(entries') = Len(entries)
                /\ \A i \in 1..(Len(entries) - 1) : entries'[i] = entries[i]
       /\ merged' >= 1
             => /\ GetEntries' # <<>>
                /\ LastOf(GetEntries').level = lastEntry'.level
                /\ LastOf(GetEntries').message = lastEntry'.message
                /\ LastOf(GetEntries').count = merged'
                /\ LastOf(GetRecentEntries(1)').count = merged']_vars

\* C11: when the shared handle is nil, CheckStatus returns at once with status
\* "Not Connected" and error details configuration / CFG_002; it calls neither
\* ErrorAnalyzer (so no error summary changes) nor Logger, starts no loop and
\* leaves the reconnector state and the handle unchanged.
C11_NilHandleStatus ==
    [][\A c \in Clients :
          /\ (cpc[c] = "idle" /\ db = NilDB) => ENABLED CallCheckStatus(c)
          /\ (db = NilDB /\ CallCheckStatus(c))
                => /\ cpc'[c] = "idle"
                   /\ cret'[c] = "Not Connected" /\ cdet'[c] = "CFG_002"
                   /\ ccalls'[c] = {}
                   /\ UNCHANGED <<isConnected, reconnecting, retryCount, lastError,
                                  errorHistory, cancelled, db, mu, closes, lpc>>]_vars
\* CheckStatus has answered CFG_002 after CloseDB closed and cleared the handle
C11_Witness ==
    /\ cret[RequestFlow] = "Not Connected" /\ cdet[RequestFlow] = "CFG_002"
    /\ db = NilDB /\ \E h \in Handles : closes[h] > 0

\* C12: while the retry loop is opening a handle, pinging or sleeping in its
\* backoff delay it holds neither Reconnector.mu nor the handle lock, and every
\* step of CheckStatus and of IsConnected / IsReconnecting / GetRetryCount can be
\* taken at once: none of them waits for the loop.
AttemptOrSleep == {"tc_open", "tc_ping", "l_wait", "l_fired"}
C12_StatusNeverWaits ==
    (\E k \in Loops : lpc[k] \in AttemptOrSleep)
    => /\ \A l \in Loops :
             lpc[l] \in AttemptOrSleep => (rmu # LId(l) /\ mu # LId(l))
       /\ \A c \in Clients :
             /\ cpc[c] = "idle"
                   => /\ ENABLED CallCheckStatus(c)
                      /\ ENABLED IsConnected(c)
                      /\ ENABLED IsReconnecting(c)
                      /\ ENABLED GetRetryCount(c)
             /\ cpc[c] = "cs_ping" => ENABLED CsPing(c)
             /\ cpc[c] = "ocl_lock" => ENABLED OclLock(c)
             /\ cpc[c] = "sr_lock" => ENABLED SrLock(c)
             /\ cpc[c] = "cs_isrec" => ENABLED CsIsRec(c)
             /\ cpc[c] = "cs_query" => ENABLED CsQuery(c)
\* one request is about to ping the handle and another to read IsReconnecting
\* while a loop pings its fresh handle and another sleeps
C12_Witness ==
    /\ \E l \in Loops : lpc[l] = "tc_ping"
    /\ \E c, d \in Clients : cpc[c] = "cs_ping" /\ cpc[d] = "cs_isrec"

\* C13: every access to the shared handle is protected by the handle lock:
\* writers exclude each other, and a flow reads or uses the handle (the nil tests
\* and Ping / QueryRow of CheckStatus and CheckConnection, the pool setup and
\* Ping of InitDB) only while no writer is inside its critical section.
HandleReadSites == {"cs_ping", "cs_query", "cc_ping", "init_ping"}
ReadsHandle(c) ==
    \/ cpc[c] \in HandleReadSites /\ CSteps(c)
    \/ cpc[c] = "idle" /\ cpc'[c] \in {"cs_ping", "cc_ping"}
C13_HandleAccessLocked ==
    [][/\ Cardinality(InCS) <= 1
       /\ \A c \in Clients : ReadsHandle(c) => mu = Free]_vars

\* C14: no flow calls into Logger or ErrorAnalyzer while it holds Reconnector.mu
\* or the handle lock: every such call of every step is made with no lock held.
C14_NoCallUnderLock ==
    /\ \A c \in Clients : \A call \in ccalls[c] : call[2] = NoLock
    /\ \A l \in Loops : \A call \in lcalls[l] : call[2] = NoLock

\* C15: every failed attempt of the retry loop is classified by ErrorAnalyzer
\* and surfaced via Logger: the loop's failure branch, or the failing step of
\* tryConnect before it, calls AnalyzeError, and the failure is logged.
CallsTo(calls) == {call[1] : call \in calls}
C15_FailureClassified ==
    [][\A l \in Loops :
          (Steps(l) /\ lpc[l] = "l_fail")
          => /\ "ErrorAnalyzer" \in CallsTo(lcalls[l] \cup lcalls'[l])
             /\ "Logger" \in CallsTo(lcalls[l] \cup lcalls'[l])]_vars
\* no step of the retry loop calls ErrorAnalyzer at all
LoopNeverAnalyzes == \A l \in Loops : "ErrorAnalyzer" \notin CallsTo(lcalls[l])

\* C16: retryCount changes only in the retry loop: its success branch sets it
\* to 0 and each failed attempt adds exactly one; no step of StartReconnection,
\* StopReconnection, OnConnectionLost, CheckConnection, CheckStatus, InitDB,
\* CloseDB or of a failing tryConnect changes it.
C16_RetryCountReset ==
    [][/\ retryCount' # retryCount
             => \E l \in Loops : Steps(l) /\ lpc[l] \in {"l_succ", "l_fail"}
       /\ \A l \in Loops :
             /\ (Steps(l) /\ lpc[l] = "l_fail") => retryCount' = retryCount + 1
             /\ (Steps(l) /\ lpc[l] = "l_succ") => retryCount' = 0]_vars
\* a loop has succeeded after two failed attempts and the count is back at 0,
\* with CloseDB, whose StopReconnection came too late, in progress
C16_Witness ==
    /\ \E l \in Loops : lpc[l] = "l_logsucc" /\ fails[l] = 2 /\ retryCount = 0
    /\ \E c \in Clients : cop[c] = "CloseDB"

\* C17: in every reachable state errorHistory holds at most 10 entries, and
\* they are the most recent recorded failures in chronological order: once the
\* history is full each new failure evicts the oldest.
C17_HistoryBounded ==
    /\ Len(errorHistory) <= 10
    /\ Len(errorHistory) = Min(recorded, 10)
    /\ \A i \in 1..Len(errorHistory) :
          errorHistory[i][1] = recorded - Len(errorHistory) + i
\* twelve failures were recorded: the history holds the third to the twelfth
C17_Witness ==
    /\ recorded = 12 /\ Len(errorHistory) = 10
    /\ errorHistory[1][1] = 3 /\ errorHistory[10][1] = 12

\* C18: after any sequence of addEntry, SetMaxEntries, SetLogLevel,
\* SetSuppressDuplicates and Clear calls the log buffer holds at most the
\* configured maximum of entries, and no addEntry call has failed.
C18_BufferWithinMax == Len(entries) <= maxEntries /\ ~logPanic
\* the part of C18 that a configured maximum of 0 refutes on its own
AddEntryNeverFails == ~logPanic

\* the patterns with a keyword occurring in a lower-cased message
Hits(lower) ==
    {i \in 1..Len(patterns) :
        \E j \in 1..Len(patterns[i].keywords) : Contains(lower, patterns[i].keywords[j])}
\* the spellings of a message: the messages equal to it up to letter case
Spellings(msg) == {m \in [1..Len(msg) -> Fragments] : ToLower(m) = ToLower(msg)}

\* C19: matchErrorPattern returns the first pattern in table order that has a
\* keyword occurring in the lower-cased message, the unknown/UNK_001 default
\* when none has, and every spelling of the message in other letter case gets
\* the same category and code
C19_FirstMatchIgnoringCase ==
    details # NoDetails =>
        LET hits == Hits(ToLower(details.message))
        IN /\ IF hits = {}
              THEN details.type = ErrorTypeUnknown /\ details.code = "UNK_001"
              ELSE \E i \in hits :
                      /\ \A k \in hits : i <= k
                      /\ details.type = patterns[i].type
                      /\ details.code = patterns[i].code
           /\ \A m \in Spellings(details.message) :
                 /\ matchErrorPattern(m).type = details.type
                 /\ matchErrorPattern(m).code = details.code
\* a message in capitals in which keywords of two patterns occur was analyzed
\* and got the earlier pattern
C19_Witness ==
    /\ details.message = <<"Lock Wait ", "Timeout">>
    /\ Cardinality(Hits(ToLower(details.message))) = 2
    /\ details.code = "TIME_001"

\* C20: every error of the authentication category gets the immediate-check
\* hint appended to its suggestion, whatever the retryCount, 0 included
C20_AuthHintAlways ==
    details.type = ErrorTypeAuth => details.hint = HintAuth

\* the augmentation the retry count calls for in a category other than
\* authentication
ExpectedHint(type, count) ==
    CASE type = ErrorTypeNetwork -> IF count > 10 THEN HintNetwork ELSE NoHint
      [] type = ErrorTypeTimeout -> IF count > 5 THEN HintTimeout ELSE NoHint
      [] OTHER -> NoHint

\* C21: a network error gets the retried-N-times augmentation exactly when
\* retryCount > 10, a timeout error the timeout-config hint exactly when
\* retryCount > 5, and an error of any other category but authentication
\* gets the pattern's suggestion unchanged; this holds of the details
\* AnalyzeError returned and of every pattern of the table
C21_HintThresholds ==
    /\ (details # NoDetails /\ details.type # ErrorTypeAuth) =>
           details.hint = ExpectedHint(details.type, details.retryCount)
    /\ \A i \in 1..Len(patterns), count \in RetryCounts :
           patterns[i].type # ErrorTypeAuth =>
               enhanceSuggestion(patterns[i], count)
                   = ExpectedHint(patterns[i].type, count)
    /\ \A count \in RetryCounts :
           enhanceSuggestion(UnknownPattern, count) = NoHint
\* the 11th retry of a network error was analyzed and got the augmentation
C21_Witness ==
    /\ details.type = ErrorTypeNetwork
    /\ details.retryCount = 11
    /\ details.hint = HintNetwork
\* the 10th retry of a network error was analyzed and got none
C21_WitnessAtTen ==
    /\ details.type = ErrorTypeNetwork
    /\ details.retryCount = 10
    /\ details.hint = NoHint

\* the calls that hold ea.mu for key k and have not written yet
Writing(k) == {a \in Analysts : apc[a] = "write" /\ acall[a].key = k}

\* C22: for every key, under every interleaving of AnalyzeError calls, purges
\* and resolutions, the summary's count is the number of AnalyzeError calls
\* that updated the key since the summary was created or last purged (a call
\* that holds ea.mu and has not written yet is still to be counted)
C22_CountMatchesCalls ==
    \A k \in SummaryKeys :
        summaries[k].count + Cardinality(Writing(k)) = matched[k]
\* two overlapping calls for one key: the first has written and not yet
\* returned, the second holds ea.mu
C22_Witness ==
    \E k \in SummaryKeys :
        /\ apc[1] = "log" /\ acall[1].key = k
        /\ apc[2] = "write" /\ acall[2].key = k
        /\ summaries[k].count = 1 /\ matched[k] = 2
\* a key counted again from 1 after its summary was purged
C22_WitnessPurged ==
    \E k \in SummaryKeys :
        /\ aret.op = "ClearOldErrors" /\ aret.value >= 1
        /\ \A a \in Analysts : apc[a] = "idle"
        /\ analyzed >= 2 /\ Present = {k}
        /\ summaries[k].count = 1 /\ matched[k] = 1

\* C23: ClearOldErrors(olderThan) removes exactly the summaries whose lastSeen
\* is strictly before now minus olderThan, returns the number it removed, and
\* leaves every other summary as it was
C23_ClearRemovesExactlyOld ==
    [][\A olderThan \in OlderThanInputs :
          ClearOldErrors(olderThan) =>
              /\ \A k \in SummaryKeys :
                    summaries'[k] =
                        IF k \in Present /\ summaries[k].lastSeen < clock' - olderThan
                        THEN NoSummary ELSE summaries[k]
              /\ aret'.value =
                    Cardinality({k \in Present : summaries'[k] = NoSummary})]_vars
\* a purge has removed one summary and the map holds another, last seen at or
\* after the cutoff, with its example and its histogram
C23_Witness ==
    /\ aret.op = "ClearOldErrors" /\ aret.value = 1
    /\ clock = aret.now
    /\ \A a \in Analysts : apc[a] = "idle"
    /\ \E k \in Present :
          /\ summaries[k].lastSeen >= aret.now - aret.olderThan
          /\ summaries[k].lastSeen < aret.now
          /\ summaries[k].examples # <<>>

\* C24: GetTopErrors(limit) returns summaries of the map, each once, in
\* non-increasing order of count: exactly limit of them when
\* 0 < limit < number of summaries, none left out having a count greater than
\* one returned, and all of them otherwise
C24_TopErrorsSorted ==
    [][\A limit \in Limits :
          (aret'.op = "GetTopErrors" /\ aret'.limit = limit /\ GetTopErrors(limit)) =>
              LET top == aret'.value
                  returned == {top[i] : i \in 1..Len(top)}
              IN /\ \A i \in 1..(Len(top) - 1) :
                        summaries[top[i]].count >= summaries[top[i + 1]].count
                 /\ returned \subseteq Present
                 /\ Cardinality(returned) = Len(top)
                 /\ Len(top) = IF limit > 0 /\ limit < Cardinality(Present)
                               THEN limit ELSE Cardinality(Present)
                 /\ \A k \in Present \ returned, r \in returned :
                        summaries[k].count <= summaries[r].count]_vars
\* of three summaries GetTopErrors(2) has returned the one counted twice, then
\* one counted once, and left out the other counted once
C24_Witness ==
    /\ aret.op = "GetTopErrors" /\ aret.limit = 2
    /\ Cardinality(Present) = 3
    /\ Len(aret.value) = 2
    /\ summaries[aret.value[1]].count = 2
    /\ summaries[aret.value[2]].count = 1

\* C25: every addEntry call at or above the threshold is mirrored to the
\* standard log, the calls merged into the previous entry included
C25_AlwaysMirrored ==
    (lastOp.op = "addEntry" /\ ~logPanic) => lastOp.printed

C27_RecentEntries ==
    [][\A n \in RecentInputs :
          CallGetRecentEntries(n) =>
              LET k == IF n > 0 THEN Min(n, Len(entries)) ELSE 0
              IN /\ Len(held'.value) = k
                 /\ \A i \in 1..k :
                       held'.value[i] = entries[Len(entries) - k + i]]_vars
\* GetRecentEntries(2) on a buffer of three returned the last two, which differ
C27_Witness ==
    /\ held.op = "GetRecentEntries" /\ held.n = 2
    /\ Len(entries) = 3
    /\ held.value = <<entries[2], entries[3]>>
    /\ entries[1] # entries[2] /\ entries[2] # entries[3]

C29_CloseIdempotent ==
    [][\A c \in Clients :
          /\ CloseClose(c) =>
                IF db = NilDB THEN closes' = closes ELSE closes[db] = 0
          /\ CloseNil(c) =>
                /\ db' = NilDB /\ reconnecting' = FALSE
                /\ cret'[c] # "panic" /\ cret'[c] # "error"]_vars
\* a CloseDB call that found the shared handle nil is about to return, after
\* an earlier call closed the handle once
C29_Witness ==
    /\ cpc[MainFlow] = "close_nil" /\ cop[MainFlow] = "CloseDB"
    /\ ccalls[MainFlow] = {}
    /\ db = NilDB /\ ~reconnecting
    /\ \E h \in Handles : closes[h] = 1
    /\ \A l \in Loops : lpc[l] = "idle"

\* C30: InitDB is idempotent: after a second call there is exactly one open
\* handle, the shared one; no handle is left open with nothing referring to it
\* (neither the package variable db nor a retry loop's newDB)
C30_NoHandleLeftOpen ==
    \A h \in Handles : closes[h] = 0 => Referenced(h)

\* client c is inside OnConnectionLost, at the StartReconnection it ends with
\* (InitDB calls StartReconnection without OnConnectionLost; a flow at "sr_go"
\* with no enclosing call may also have called StartReconnection itself)
InOnConnectionLost(c) == cpc[c] \in {"sr_lock", "sr_go"} /\ cop[c] # "InitDB"

\* C31: OnConnectionLost sets isConnected to false, logs one warning and calls
\* StartReconnection; when that call returns the reconnecting flag is true and
\* a retry loop is live
C31_LostStartsLoop ==
    [][\A c \in Clients :
          /\ (CallOnConnectionLost(c) \/ OclLock(c))
                => /\ isConnected' = FALSE
                   /\ ccalls'[c] = {LoggerCall(NoLock)}
                   /\ cpc'[c] = "sr_lock"
          /\ (InOnConnectionLost(c) /\ CSteps(c) /\ cpc'[c] # "sr_go")
                => (reconnecting' /\ LiveLoops' # {})]_vars

\* C32: LogRetry writes a line for attempt 1, for attempts 2 and 3 and for
\* every attempt number divisible by 10; for any other attempt it writes a
\* line exactly when 30 seconds or more have passed since the last time-based
\* progress line, or since the start when there was none; two time-based
\* progress lines are never less than 30 seconds apart, and none comes less
\* than 30 seconds after the start
C32_RetryLines ==
    /\ rlOut.op = "LogRetry" =>
          LET count == rlOut.retryCount
              since == IF rlOut.line = LineProgress
                       THEN (IF Len(progressLines) >= 2
                             THEN progressLines[Len(progressLines) - 1]
                             ELSE startTime)
                       ELSE (IF progressLines # <<>>
                             THEN progressLines[Len(progressLines)]
                             ELSE startTime)
          IN /\ (count \in {1, 2, 3} \/ count % 10 = 0)
                   => rlOut.line \in {LineFirst, LineBrief, LineDetailed}
             /\ ~(count \in {1, 2, 3} \/ count % 10 = 0)
                   => (rlOut.line = LineProgress <=> rlOut.now - since >= 30)
                      /\ rlOut.line \in {LineProgress, LineNone}
    /\ \A i \in 1..Len(progressLines) :
          /\ progressLines[i] - startTime >= 30
          /\ i > 1 => progressLines[i] - progressLines[i - 1] >= 30
\* two time-based progress lines were written, and the last call, less than
\* 30 seconds after the second, wrote nothing
C32_Witness ==
    /\ Len(progressLines) = 2
    /\ rlOut.op = "LogRetry" /\ rlOut.line = LineNone
    /\ rlOut.now - progressLines[2] = 29

\* the keywords of the i-th pattern, as matchErrorPattern compares them
KeywordsOf(i) == {ToLower(patterns[i].keywords[j]) : j \in 1..Len(patterns[i].keywords)}
\* pattern i is more specific than pattern k: a keyword of i contains one of k
MoreSpecific(i, k) ==
    i # k /\ \E kwi \in KeywordsOf(i), kwk \in KeywordsOf(k) : Contains(kwi, kwk)

\* C33: the table is ordered most-specific-first, as AnalyzeError shows it:
\* no message it classified holds a keyword of a pattern more specific than
\* the pattern returned, and a message that is a keyword of a pattern gets
\* that pattern, so that every pattern is returned for some message
C33_MostSpecificFirst ==
    details # NoDetails =>
        LET lower == ToLower(details.message)
        IN /\ \A i, k \in Hits(lower) :
                  (details.code = patterns[k].code) => ~MoreSpecific(i, k)
           /\ \A i \in 1..Len(patterns) :
                  lower \in KeywordsOf(i) => details.code = patterns[i].code

\* C34: an addEntry call that appends while the buffer, not empty, holds the
\* configured maximum of entries or more removes exactly the oldest entry,
\* keeps the others in their order and puts the new entry last with repeat
\* count 1, making it the last entry of the suppression; a call below the
\* threshold changes neither the buffer nor the suppression state
C34_EvictsOldest ==
    [][\A level \in Levels, message \in Messages :
          addEntry(level, message) =>
             /\ level < currentLevel
                   => UNCHANGED <<entries, lastEntry, merged, suppressDuplicates, lastOp>>
             /\ (/\ level >= currentLevel /\ ~IsDuplicate(level, message)
                 /\ Len(entries) >= maxEntries /\ entries # <<>>)
                   => /\ Len(entries') = Len(entries)
                      /\ \A i \in 1..(Len(entries) - 1) : entries'[i] = entries[i + 1]
                      /\ entries'[Len(entries)] = [level |-> level, message |-> message,
                                                   count |-> 1]
                      /\ lastEntry' = entries'[Len(entries)]
                      /\ lastOp'.evicted = entries[1]]_vars
\* a buffer of two, the configured maximum, after a call that evicted an
\* entry differing from the two it holds, which differ
C34_Witness ==
    /\ lastOp.op = "addEntry" /\ lastOp.evicted # NoEntry
    /\ maxEntries = 2 /\ Len(entries) = 2
    /\ entries[1] # entries[2]
    /\ lastOp.evicted # entries[1] /\ lastOp.evicted # entries[2]

\* C35: whenever the reconnecting flag is true and no StartReconnection call
\* is between setting the flag and launching its loop, a retry loop is live:
\* the flag is never left set with no loop running, not even by a
\* StartReconnection or OnConnectionLost that follows a StopReconnection
C35_FlagMeansLoop ==
    (reconnecting /\ \A c \in Clients : cpc[c] # "sr_go") => LiveLoops # {}

\* CloseDB has stopped the reconnection and returned, and the shared handle
\* is nil (in SpecHandle only CloseDB cancels the context)
ClosedDown == cancelled /\ db = NilDB /\ \A c \in Clients : cop[c] # "CloseDB"

\* C36: after CloseDB has returned no step of a retry loop installs a shared
\* handle or marks the state connected: a loop that was inside tryConnect when
\* the stop was issued leaves the shared handle nil
C36_ClosedStaysClosed ==
    [][\A l \in Loops :
          (ClosedDown /\ Steps(l)) => (db' = NilDB /\ (isConnected' => isConnected))]_vars

\* C37: the reconnector is in exactly one of the states Connected,
\* Disconnected, Reconnecting: in no reachable state are isConnected and
\* reconnecting both true
C37_OneState == ~(isConnected /\ reconnecting)

\* the locks of the package and the lock flow c is about to take, if any
LockNames == {LockMu, LockRmu, LockEa, LockDl}
Wants(c) ==
    IF script[c] # <<>> /\ Head(script[c])[1] = "Lock" THEN Head(script[c])[2] ELSE "none"
HeldBy(c) == {lock \in LockNames : Holder(lock) = CId(c)}
\* flow c can take its next step, or waits for a flow that can, and so on
RECURSIVE CanProceed(_, _)
CanProceed(c, n) ==
    \/ Wants(c) = "none"
    \/ Holder(Wants(c)) = Free
    \/ /\ n > 0
       /\ \E d \in Clients \ {c} : Holder(Wants(c)) = CId(d) /\ CanProceed(d, n - 1)
\* the order the locks are taken in: dl.mu last, the others never together
LockRank(lock) == IF lock = LockDl THEN 2 ELSE 1

\* C38: the system is deadlock-free across the handle lock, Reconnector.mu,
\* ErrorAnalyzer.mu and DatabaseLogger.mu: no flow takes a lock it holds, a
\* flow that holds locks takes only a lock later in the order, and every flow
\* inside a call can take its next step or waits for a chain of flows the
\* last of which can
C38_NoDeadlock ==
    \A c \in Clients :
        /\ Wants(c) \notin HeldBy(c)
        /\ Wants(c) # "none" => \A lock \in HeldBy(c) : LockRank(lock) < LockRank(Wants(c))
        /\ CanProceed(c, NumClients)
\* a flow that holds ea.mu waits for dl.mu, which another flow holds while
\* it logs inside a critical section of the handle lock
C38_Witness ==
    \E c, d \in Clients :
        /\ eamu = CId(c) /\ Wants(c) = LockDl
        /\ dlmu = CId(d) /\ mu = CId(d)

\* the parts of C39 that concern the counts
FrequencyMatchesCount ==
    /\ \A k \in Present : BagCardinality(summaries[k].frequency) = summaries[k].count
    /\ GetErrorTrends.total_errors = BagCardinality(GetErrorTrends.hourly_data)
ExamplesDistinct ==
    \A k \in Present :
        /\ Len(summaries[k].examples) <= MaxExamples
        /\ \A i, j \in 1..Len(summaries[k].examples) :
              summaries[k].examples[i] = summaries[k].examples[j] => i = j

\* C39: for every summary of the map, in every reachable state, the hourly
\* buckets add up to the count, firstSeen is not after lastSeen, and the
\* examples are at most 10 and differ; the total_errors of GetErrorTrends is
\* the sum of its hourly histogram
C39_SummaryConsistent ==
    /\ FrequencyMatchesCount
    /\ ExamplesDistinct
    /\ \A k \in Present : summaries[k].firstSeen <= summaries[k].lastSeen


\* what the caller of GetTopErrors holds: the summaries its pointers lead to
\* (SpecTop deletes no summary: a key stands for one ErrorSummary object)
HeldTop == [i \in 1..Len(aret.value) |-> summaries[aret.value[i]]]

\* C40: the summaries an accessor returned are snapshots: while the caller
\* holds what GetTopErrors returned, no later step of the analyzer changes any
\* of the summaries it was given.
C40_ReturnedIsSnapshot ==
    [][(aret.op = "GetTopErrors" /\ aret' = aret) =>
          \A i \in 1..Len(aret.value) :
              summaries'[aret.value[i]] = HeldTop[i]]_vars

====
